---- MODULE Spec2Model ----
(***************************************************************************)
(* A model of server/build.go of esm.sh: the build identifier computed by  *)
(* build(), the artifact cache it consults (the key/value store and the    *)
(* .js/.css sidecars under <storage>/builds), the global build lock, and   *)
(* the commit of a finished build.                                         *)
(*                                                                         *)
(* Strings are sequences of tokens.  A token is one character ("a", "/",   *)
(* "@") or one literal piece of text that the code emits whole and that    *)
(* holds no '/' ("external=", ".development", "bundle-", "es2020").        *)
(***************************************************************************)
EXTENDS Integers, Sequences, FiniteSets, TLC

VARIABLES
    fpReq,      \* fingerprint runs: the buildOptions handed to build()
    fpId,       \* fingerprint runs: ret.buildID computed for fpReq, or NoId
    fpPrevReq,  \* fingerprint runs: the request fpReq was reordered from, or NoReq
    fpPrevId,   \* fingerprint runs: ret.buildID computed for fpPrevReq, or NoId
    db,         \* the key/value store: BuildID -> NoRec or [importMeta, css]
    jsFile,     \* <storage>/builds/<BuildID>.js: "absent", "partial" or "complete"
    cssFile,    \* <storage>/builds/<BuildID>.css: "absent", "partial" or "complete"
    buildLock,  \* the holder of buildLock, or NoProc
    pc,         \* each request's place in build()
    bid,        \* each request's ret.buildID
    got,        \* each request's p: the record db.Get returned
    ret,        \* each request's ret.importMeta and ret.hasCSS
    outcome,    \* how each request's last call returned: "none", "hit", "built", "error"
    out,        \* each request's bundler result: importMeta and whether a .css came out
    verdict,    \* history: what the lookup of the call found
    gateSaw,    \* history: record and complete .js were there when the call acquired buildLock
    fresh,      \* history: there was no record when the call began its commit
    expect,     \* history: the commit the call began after, while nothing touched it since
    lastCommit, \* history: per BuildID, what the last pipeline run committed, while intact
    buildDir,          \* each request's working directory: "none", "exists" or "removed"
    indirectRequires,  \* each request's indirectRequires: the names the retries recorded
    resultErrors,      \* each request's result.Errors of the last api.Build
    esbuildCalls,      \* history: how often the request's build invoked api.Build
    reported,          \* history: the names the request's `Could not resolve` errors reported
    wrote,             \* history: the request's call has written the record (db.Put)
    esbuildExternals,  \* each request's externals: the list api.Build runs with
    prReq,             \* peer runs: the buildOptions handed to build()
    prInfo,            \* peer runs: what getPackageInfo answers for each requested package
    prPc,              \* peer runs: the place in build()
    peerDependencies,  \* peer runs: the map peerDependencies, name -> version
    peerPackages,      \* peer runs: the keys of the map peerPackages
    installList,       \* peer runs: installList
    externals,         \* peer runs: externals
    rsOpt,                   \* bundler runs: the options and peerPackages of the build
    rsArgs,                  \* bundler runs: the arguments of the last call of the resolver
    rsResult,                \* bundler runs: what the last call of the resolver returned
    rsBefore,                \* history: peerModulesForCommonjs before the last call
    rsCalls,                 \* bundler runs: the calls of the resolver so far
    rsPc,                    \* bundler runs: the place in the invocation
    peerModulesForCommonjs,  \* bundler runs: the map peerModulesForCommonjs
    outputContent,           \* bundler runs: the .js output of api.Build
    jsContentBuf,            \* bundler runs: the prelude and the output after it
    pbReq,                   \* probe runs: the packages handed to build() and single
    pbEnv,                   \* probe runs: the registry's answer and the installed files
    probeMeta,               \* probe runs: importMeta, import path -> ImportMeta
    probed,                  \* history: import path -> how the probing loop classified it
    entryStub,               \* probe runs: the statements written to buf
    pbPc,                    \* probe runs: the place in build()
    clReq,                   \* collision runs: two single-package requests
    clId                     \* collision runs: ret.buildID of each, or NoId

fpVars == <<fpReq, fpId, fpPrevReq, fpPrevId>>

storeVars == <<db, jsFile, cssFile>>

callVars == <<pc, bid, got, ret, outcome, out>>

histVars == <<verdict, gateSaw, fresh, expect, lastCommit>>

buildVars == <<storeVars, buildLock, callVars, histVars>>

plLoopVars == <<indirectRequires, resultErrors, esbuildCalls, reported, esbuildExternals>>

plVars == <<buildDir, plLoopVars, wrote>>

peerVars == <<prReq, prInfo, prPc, peerDependencies, peerPackages, installList, externals>>

rsVars == <<rsOpt, rsArgs, rsResult, rsBefore, rsCalls, rsPc, peerModulesForCommonjs,
           outputContent, jsContentBuf>>

pbVars == <<pbReq, pbEnv, probeMeta, probed, entryStub, pbPc>>

clVars == <<clReq, clId>>

synthVars == <<rsVars, pbVars, clVars>>

vars == <<fpVars, buildVars, plVars, synthVars, peerVars, synthVars>>

----------------------------------------------------------------------------
(* Bounds of the model *)

MaxPkgs == 2        \* longest packages list of a fingerprint run
MaxExt == 2         \* longest externals list of a fingerprint run
NumReqs == 3        \* requests made of the service
MaxErrs == 2        \* longest result.Errors of an invocation of api.Build
MaxPeerPkgs == 2    \* longest packages list of a peer run

----------------------------------------------------------------------------
(* Program constants *)

buildVersion == 1

NoId == <<>>

NoReq == [packages |-> <<>>]

----------------------------------------------------------------------------
(* Strings *)

\* The tokens that occur in names, versions and submodules, in byte order.
Alphabet ==
    <<"-", ".", ".development", "/", "1", "2", "9", "@", "_", "a", "b", "q",
      "react", "react-dom", "react-router", "s", "x">>

Code(c) == CHOOSE i \in 1..Len(Alphabet) : Alphabet[i] = c

\* Go's string comparison a < b, byte by byte, a proper prefix being smaller.
RECURSIVE StrLess(_, _)
StrLess(a, b) ==
    IF b = <<>> THEN FALSE
    ELSE IF a = <<>> THEN TRUE
    ELSE IF Head(a) /= Head(b) THEN Code(Head(a)) < Code(Head(b))
    ELSE StrLess(Tail(a), Tail(b))

\* strings.ReplaceAll(s, old, new) for a one-character old.
ReplaceAll(s, old, new) == [i \in 1..Len(s) |-> IF s[i] = old THEN new ELSE s[i]]

RECURSIVE StripTrailingSlashes(_)
StripTrailingSlashes(s) ==
    IF Len(s) > 0 /\ s[Len(s)] = "/"
    THEN StripTrailingSlashes(SubSeq(s, 1, Len(s) - 1))
    ELSE s

LastIndexSlash(s) ==
    LET I == {i \in 1..Len(s) : s[i] = "/"}
    IN IF I = {} THEN 0 ELSE CHOOSE i \in I : \A j \in I : j <= i

\* path.Base: "" gives ".", trailing slashes are dropped, then the text after
\* the last slash; a path of slashes only gives "/".
PathBase(s) ==
    IF s = <<>> THEN <<".">>
    ELSE LET t == StripTrailingSlashes(s)
             u == SubSeq(t, LastIndexSlash(t) + 1, Len(t))
         IN IF u = <<>> THEN <<"/">> ELSE u

\* fmt's %d of a small integer and %v of a bool.
Itoa(n) == <<ToString(n)>>

BoolStr(b) == IF b THEN <<"true">> ELSE <<"false">>

----------------------------------------------------------------------------
(* module and moduleSlice *)

Module(n, v, s) == [name |-> n, version |-> v, submodule |-> s]

\* module.String(): name@version, then /submodule when there is one.
ModuleString(m) ==
    m.name \o <<"@">> \o m.version
        \o (IF m.submodule /= <<>> THEN <<"/">> \o m.submodule ELSE <<>>)

\* module.ImportPath(): name, then /submodule when there is one.
ImportPath(m) ==
    m.name \o (IF m.submodule /= <<>> THEN <<"/">> \o m.submodule ELSE <<>>)

\* moduleSlice.String(): the modules' strings in list order, joined by ",".
RECURSIVE SliceString(_)
SliceString(s) ==
    IF s = <<>> THEN <<>>
    ELSE IF Len(s) = 1 THEN ModuleString(s[1])
    ELSE ModuleString(s[1]) \o <<",">> \o SliceString(Tail(s))

\* moduleSlice.Less: by name, then version, then submodule.
ModuleLess(a, b) ==
    IF a.name /= b.name THEN StrLess(a.name, b.name)
    ELSE IF a.version /= b.version THEN StrLess(a.version, b.version)
    ELSE StrLess(a.submodule, b.submodule)

RECURSIVE InsertSorted(_, _)
InsertSorted(m, s) ==
    IF s = <<>> THEN <<m>>
    ELSE IF ModuleLess(Head(s), m) THEN <<Head(s)>> \o InsertSorted(m, Tail(s))
    ELSE <<m>> \o s

\* sort.Sort(slice): the slice in ascending order of Less.
RECURSIVE SortSlice(_)
SortSlice(s) == IF s = <<>> THEN <<>> ELSE InsertSorted(Head(s), SortSlice(Tail(s)))

----------------------------------------------------------------------------
(* build(): the build identifier, lines 67-95 *)

\* sha1, then base32, then lower case: one piece of text without a '/', a
\* function of the hashed text, taken to be free of collisions.
Sha1Base32(s) == <<ToString(s)>>

\* The externals text as the single-package branch reads it (line 80).
SingleExternalText(external) == SliceString(external)

BundleExternalTextUnsorted(external) == SliceString(external)

\* The externals text as the bundle branch reads it (lines 92-93).
BundleExternalText(external) == SliceString(SortSlice(external))

SingleBuildIDDevOnBasenameOnly(o) ==
    LET pkg == o.packages[1]
        target == IF Len(o.external) > 0
                  THEN <<"external=">>
                           \o ReplaceAll(SingleExternalText(o.external), "/", "_")
                           \o <<"/">> \o o.target
                  ELSE o.target
        filename == IF pkg.submodule /= <<>> THEN pkg.submodule
                    ELSE IF o.isDev THEN PathBase(pkg.name) \o <<".development">>
                    ELSE PathBase(pkg.name)
    IN <<"v">> \o Itoa(buildVersion) \o <<"/">> \o pkg.name \o <<"@">> \o pkg.version
           \o <<"/">> \o target \o <<"/">> \o filename

SingleBuildID(o) ==
    LET pkg == o.packages[1]
        target == IF Len(o.external) > 0
                  THEN <<"external=">>
                           \o ReplaceAll(SingleExternalText(o.external), "/", "_")
                           \o <<"/">> \o o.target
                  ELSE o.target
        filename0 == IF pkg.submodule /= <<>> THEN pkg.submodule ELSE PathBase(pkg.name)
        filename == IF o.isDev THEN filename0 \o <<".development">> ELSE filename0
    IN <<"v">> \o Itoa(buildVersion) \o <<"/">> \o pkg.name \o <<"@">> \o pkg.version
           \o <<"/">> \o target \o <<"/">> \o filename

BundleBuildID(o) ==
    <<"bundle-">>
        \o Sha1Base32(<<"v">> \o Itoa(buildVersion) \o <<"/">>
                          \o SliceString(SortSlice(o.packages)) \o <<"/">>
                          \o BundleExternalText(o.external) \o <<"/">>
                          \o o.target \o <<"/">> \o BoolStr(o.isDev))

\* ret.buildID for a request with at least one package.
BuildID(o) == IF Len(o.packages) = 1 THEN SingleBuildID(o) ELSE BundleBuildID(o)

----------------------------------------------------------------------------
(* build(): the paths of the sidecars, lines 108, 111, 681 and 698 *)

\* The storage directory the server was started with.
storageDir == <<"/", "data">>

\* path.Clean of a path without "." and ".." elements: runs of slashes
\* become one slash and a trailing slash goes, but for the root.
RECURSIVE PathClean(_)
PathClean(s) ==
    IF Len(s) <= 1 THEN s
    ELSE IF s[1] = "/" /\ s[2] = "/" THEN PathClean(Tail(s))
    ELSE IF Len(s) = 2 /\ s[2] = "/" THEN <<s[1]>>
    ELSE <<s[1]>> \o PathClean(Tail(s))

\* path.Join: the non-empty elements joined by slashes, then path.Clean.
RECURSIVE JoinElems(_)
JoinElems(elems) ==
    IF elems = <<>> THEN <<>>
    ELSE IF Head(elems) = <<>> THEN JoinElems(Tail(elems))
    ELSE LET rest == JoinElems(Tail(elems))
         IN IF rest = <<>> THEN Head(elems) ELSE Head(elems) \o <<"/">> \o rest

PathJoin(elems) == PathClean(JoinElems(elems))

\* The .css and the .js the lookup tests with fileExists (lines 108, 111).
LookupCssPath(id) == PathJoin(<<storageDir, <<"builds">>, id \o <<".css">>>>)

LookupJsPath(id) == PathJoin(<<storageDir, <<"builds">>, id \o <<".js">>>>)

\* The .css the commit creates (line 681).
CommitCssPath(id) == PathJoin(<<storageDir, <<"builds">>, id \o <<".css">>>>)

CommitJsPathUnderVersion(id) ==
    PathJoin(<<storageDir, <<"builds">>, <<"v">> \o Itoa(buildVersion), id \o <<".js">>>>)

\* The .js the commit creates (line 698).
CommitJsPath(id) == PathJoin(<<storageDir, <<"builds">>, id \o <<".js">>>>)

----------------------------------------------------------------------------
(* Fingerprint runs: build() applied to a request and to a reordering of it *)

FpModules ==
    { Module(<<"a">>, <<"1">>, <<>>),
      Module(<<"a">>, <<"2">>, <<>>),
      Module(<<"a">>, <<"1">>, <<"x", "/", "b">>),
      Module(<<"@", "s", "/", "b">>, <<"1">>, <<>>) }

FpTargets == { <<"es2020">>, <<"deno">> }

SeqsUpTo(S, n) == UNION { [1..k -> S] : k \in 0..n }

FpRequests ==
    [ packages : SeqsUpTo(FpModules, MaxPkgs) \ {<<>>},
      external : SeqsUpTo(FpModules, MaxExt),
      target   : FpTargets,
      isDev    : BOOLEAN ]

\* The reorderings of a list: the same elements, each as often.
Count(s, x) == Cardinality({i \in 1..Len(s) : s[i] = x})

Reorderings(s) ==
    { t \in [1..Len(s) -> {s[i] : i \in 1..Len(s)}] :
          \A i \in 1..Len(s) : Count(t, s[i]) = Count(s, s[i]) }

FpInit ==
    /\ fpReq \in FpRequests
    /\ fpId = NoId
    /\ fpPrevReq = NoReq
    /\ fpPrevId = NoId

\* build() computes ret.buildID of the request.
FpBuild ==
    /\ fpId = NoId
    /\ fpId' = BuildID(fpReq)
    /\ UNCHANGED <<fpReq, fpPrevReq, fpPrevId, buildVars, plVars, synthVars, peerVars>>

\* The same request comes again with its packages and externals in another order.
FpReorder ==
    /\ fpId /= NoId
    /\ fpPrevId = NoId
    /\ \E ps \in Reorderings(fpReq.packages), es \in Reorderings(fpReq.external) :
           fpReq' = [fpReq EXCEPT !.packages = ps, !.external = es]
    /\ fpPrevReq' = fpReq
    /\ fpPrevId' = fpId
    /\ fpId' = NoId
    /\ UNCHANGED <<buildVars, plVars, synthVars, peerVars>>

----------------------------------------------------------------------------
(* build(): cache lookup, build lock, pipeline and commit, lines 97-723    *)
(*                                                                         *)
(* The key/value store answers every call: Get finds the record or reports *)
(* ErrNotFound, Delete and Put succeed.  Files can fail to be created or   *)
(* written, and the registry, the installer and the bundler can fail.      *)

\* The requests: each calls build() once, on a goroutine of its own.
Procs == 1..NumReqs

NoProc == 0

\* The requests the concurrent callers draw from: one package, a bundle, the
\* same bundle in the other order, and no package at all.
BuildReqs ==
    { [packages |-> <<Module(<<"a">>, <<"1">>, <<>>)>>,
       external |-> <<>>, target |-> <<"es2020">>, isDev |-> FALSE],
      [packages |-> <<Module(<<"a">>, <<"1">>, <<>>), Module(<<"b">>, <<"1">>, <<>>)>>,
       external |-> <<>>, target |-> <<"es2020">>, isDev |-> FALSE],
      [packages |-> <<Module(<<"b">>, <<"1">>, <<>>), Module(<<"a">>, <<"1">>, <<>>)>>,
       external |-> <<>>, target |-> <<"es2020">>, isDev |-> FALSE],
      [packages |-> <<>>,
       external |-> <<>>, target |-> <<"es2020">>, isDev |-> FALSE] }

Ids == { BuildID(o) : o \in {r \in BuildReqs : Len(r.packages) > 0} }

NoMeta == <<>>

\* The importMeta map the pipeline computes for a request: one entry per
\* requested package, so a map of its own for every BuildID.
MetaOf(id) == <<"importMeta", id>>

NoRec == [importMeta |-> <<>>, css |-> -1]

NoCommit == [importMeta |-> NoMeta, hasCSS |-> FALSE]

NoOut == [importMeta |-> NoMeta, css |-> FALSE]

\* utils.MustEncodeJSON(importMeta)
EncodeJSON(m) == <<"json", m>>

\* Bytes that are no JSON of an importMeta map.
Garbage == <<"garbage">>

\* json.Unmarshal(bytes, &ret.importMeta): whether it succeeds, and the map.
DecodeOk(b) == Len(b) = 2 /\ b[1] = "json"

DecodeValue(b) == IF DecodeOk(b) THEN b[2] ELSE NoMeta

\* fileExists(path)
FileExists(f) == f /= "absent"

DbDeleteNothing(d, id) == d

\* db.Delete(q.Alias(id))
DbDelete(d, id) == [d EXCEPT ![id] = NoRec]

PutRecordCssNever(m, css) == [importMeta |-> EncodeJSON(m), css |-> 0]

\* The q.KV that db.Put stores: the encoded importMeta and the css byte.
PutRecord(m, css) == [importMeta |-> EncodeJSON(m), css |-> IF css THEN 1 ELSE 0]

CommitNextRecordFirst(step, css) ==
    CASE step = "run"       -> "put"
      [] step = "put"       -> IF css THEN "cssCreate" ELSE "jsCreate"
      [] step = "cssCreate" -> "cssCopy"
      [] step = "cssCopy"   -> "jsCreate"
      [] step = "jsCreate"  -> "jsCopy"
      [] step = "jsCopy"    -> "defer"

CommitNextRecordBeforeJs(step, css) ==
    CASE step = "run"       -> IF css THEN "cssCreate" ELSE "put"
      [] step = "cssCreate" -> "cssCopy"
      [] step = "cssCopy"   -> "put"
      [] step = "put"       -> "jsCreate"
      [] step = "jsCreate"  -> "jsCopy"
      [] step = "jsCopy"    -> "defer"

\* The order of the commit: the step that follows `step` when it succeeds.
\* The .css output is written inside the loop over the output files, the
\* .js after the loop, the record last.
CommitNext(step, css) ==
    CASE step = "run"       -> IF css THEN "cssCreate" ELSE "jsCreate"
      [] step = "cssCreate" -> "cssCopy"
      [] step = "cssCopy"   -> "jsCreate"
      [] step = "jsCreate"  -> "jsCopy"
      [] step = "jsCopy"    -> "put"
      [] step = "put"       -> "defer"

\* The steps of the pipeline between buildLock.Lock() and the output files,
\* when the pipeline is followed step by step.
PipelineSteps == {"mkdir", "chdir", "yarnAdd", "probe", "types", "externals",
                  "esbuild", "errors"}

\* The steps between acquiring buildLock and the deferred Unlock.
GateSteps ==
    {"run", "cssCreate", "cssCopy", "jsCreate", "jsCopy", "put", "defer"}
        \cup PipelineSteps

CommitSteps == {"cssCreate", "cssCopy", "jsCreate", "jsCopy", "put"}

\* A record with decodable meta and a completely written .js sidecar.
Committed(id) == db[id] /= NoRec /\ DecodeOk(db[id].importMeta) /\ jsFile[id] = "complete"

\* History: a change to the entry of `id` made by another than `self` ends
\* what the calls for `id` could expect of it.
Touch(id, self) ==
    [q \in Procs |-> IF q /= self /\ bid[q] = id THEN NoCommit ELSE expect[q]]

\* os.RemoveAll(buildDir): the directory is gone afterwards.
RemoveAll(d) == IF d = "exists" THEN "removed" ELSE d

\* The state of the pipeline of a request that has not entered it.
PipelineIdle ==
    /\ buildDir = [p \in Procs |-> "none"]
    /\ indirectRequires = [p \in Procs |-> {}]
    /\ resultErrors = [p \in Procs |-> <<>>]
    /\ esbuildCalls = [p \in Procs |-> 0]
    /\ reported = [p \in Procs |-> {}]
    /\ esbuildExternals = [p \in Procs |-> <<>>]
    /\ wrote = [p \in Procs |-> FALSE]

\* No peer run.
PeersIdle ==
    /\ prReq = NoReq
    /\ prInfo = <<>>
    /\ prPc = "idle"
    /\ peerDependencies = <<>>
    /\ peerPackages = {}
    /\ installList = {}
    /\ externals = {}

BuildInit ==
    /\ db = [id \in Ids |-> NoRec]
    /\ jsFile = [id \in Ids |-> "absent"]
    /\ cssFile = [id \in Ids |-> "absent"]
    /\ buildLock = NoProc
    /\ pc = [p \in Procs |-> "idle"]
    /\ bid = [p \in Procs |-> NoId]
    /\ got = [p \in Procs |-> NoRec]
    /\ ret = [p \in Procs |-> NoCommit]
    /\ outcome = [p \in Procs |-> "none"]
    /\ out = [p \in Procs |-> NoOut]
    /\ verdict = [p \in Procs |-> "none"]
    /\ gateSaw = [p \in Procs |-> FALSE]
    /\ fresh = [p \in Procs |-> FALSE]
    /\ expect = [p \in Procs |-> NoCommit]
    /\ lastCommit = [id \in Ids |-> NoCommit]

CallWithLockBeforeCheck(p, o) ==
    /\ pc[p] = "idle"
    /\ IF Len(o.packages) = 0
       THEN /\ buildLock = NoProc
            /\ buildLock' = p
            /\ outcome' = [outcome EXCEPT ![p] = "error"]
            /\ pc' = [pc EXCEPT ![p] = "defer"]
            /\ UNCHANGED <<bid, expect>>
       ELSE /\ bid' = [bid EXCEPT ![p] = BuildID(o)]
            /\ expect' = [expect EXCEPT ![p] = lastCommit[BuildID(o)]]
            /\ pc' = [pc EXCEPT ![p] = "get"]
            /\ UNCHANGED <<outcome, buildLock>>
    /\ UNCHANGED <<fpVars, peerVars, synthVars, plVars, storeVars, got, ret, out,
                   verdict, gateSaw, fresh, lastCommit>>

\* build() is called with the options o: lines 67-95.  No package is an
\* error; otherwise ret.buildID is computed.
CallWith(p, o) ==
    /\ pc[p] = "idle"
    /\ IF Len(o.packages) = 0
       THEN /\ outcome' = [outcome EXCEPT ![p] = "error"]
            /\ pc' = [pc EXCEPT ![p] = "done"]
            /\ UNCHANGED <<bid, expect>>
       ELSE /\ bid' = [bid EXCEPT ![p] = BuildID(o)]
            /\ expect' = [expect EXCEPT ![p] = lastCommit[BuildID(o)]]
            /\ pc' = [pc EXCEPT ![p] = "get"]
            /\ UNCHANGED outcome
    /\ UNCHANGED <<fpVars, peerVars, synthVars, plVars, storeVars, buildLock, got, ret, out,
                   verdict, gateSaw, fresh, lastCommit>>

\* build() is called by the request p.
Call(p) == \E o \in BuildReqs : CallWith(p, o)

GetWhenLockFree(p) ==
    /\ pc[p] = "get"
    /\ buildLock = NoProc
    /\ got' = [got EXCEPT ![p] = db[bid[p]]]
    /\ IF db[bid[p]] = NoRec
       THEN /\ pc' = [pc EXCEPT ![p] = "lock"]
            /\ verdict' = [verdict EXCEPT ![p] = "notfound"]
            /\ UNCHANGED ret
       ELSE IF DecodeOk(db[bid[p]].importMeta)
       THEN /\ pc' = [pc EXCEPT ![p] = "cssCheck"]
            /\ ret' = [ret EXCEPT ![p].importMeta = DecodeValue(db[bid[p]].importMeta)]
            /\ UNCHANGED verdict
       ELSE /\ pc' = [pc EXCEPT ![p] = "delCorrupt"]
            /\ verdict' = [verdict EXCEPT ![p] = "corrupt"]
            /\ UNCHANGED ret
    /\ UNCHANGED <<fpVars, peerVars, synthVars, plVars, storeVars, buildLock, bid, outcome, out,
                   gateSaw, fresh, expect, lastCommit>>

\* db.Get(q.Alias(ret.buildID), ...) and json.Unmarshal of the stored
\* importMeta: lines 97-99, and ErrNotFound at line 121.
Get(p) ==
    /\ pc[p] = "get"
    /\ got' = [got EXCEPT ![p] = db[bid[p]]]
    /\ IF db[bid[p]] = NoRec
       THEN /\ pc' = [pc EXCEPT ![p] = "lock"]
            /\ verdict' = [verdict EXCEPT ![p] = "notfound"]
            /\ UNCHANGED ret
       ELSE IF DecodeOk(db[bid[p]].importMeta)
       THEN /\ pc' = [pc EXCEPT ![p] = "cssCheck"]
            /\ ret' = [ret EXCEPT ![p].importMeta = DecodeValue(db[bid[p]].importMeta)]
            /\ UNCHANGED verdict
       ELSE /\ pc' = [pc EXCEPT ![p] = "delCorrupt"]
            /\ verdict' = [verdict EXCEPT ![p] = "corrupt"]
            /\ UNCHANGED ret
    /\ UNCHANGED <<fpVars, peerVars, synthVars, plVars, storeVars, buildLock, bid, outcome, out,
                   gateSaw, fresh, expect, lastCommit>>

\* db.Delete after the decode failed: lines 100-105.  Delete's nil error
\* replaces the decode error and build goes on to line 107.
DelCorrupt(p) ==
    /\ pc[p] = "delCorrupt"
    /\ db' = DbDelete(db, bid[p])
    /\ expect' = Touch(bid[p], p)
    /\ lastCommit' = [lastCommit EXCEPT ![bid[p]] = NoCommit]
    /\ pc' = [pc EXCEPT ![p] = "cssCheck"]
    /\ UNCHANGED <<fpVars, peerVars, synthVars, plVars, jsFile, cssFile, buildLock, bid, got, ret, outcome, out,
                   verdict, gateSaw, fresh>>

\* ret.hasCSS from the css byte and the .css sidecar: lines 107-109.
CssCheck(p) ==
    /\ pc[p] = "cssCheck"
    /\ ret' = [ret EXCEPT ![p].hasCSS =
                   IF got[p].css = 1 THEN FileExists(cssFile[bid[p]]) ELSE FALSE]
    /\ pc' = [pc EXCEPT ![p] = "jsCheck"]
    /\ UNCHANGED <<fpVars, peerVars, synthVars, plVars, storeVars, buildLock, bid, got, outcome, out, histVars>>

\* fileExists of the .js sidecar: lines 111-114.  When it exists build
\* returns ret with the nil error ("has built").
JsCheck(p) ==
    /\ pc[p] = "jsCheck"
    /\ IF FileExists(jsFile[bid[p]])
       THEN /\ pc' = [pc EXCEPT ![p] = "done"]
            /\ outcome' = [outcome EXCEPT ![p] = "hit"]
            /\ UNCHANGED verdict
       ELSE /\ pc' = [pc EXCEPT ![p] = "purge"]
            /\ verdict' = [verdict EXCEPT ![p] =
                               IF verdict[p] = "corrupt" THEN "corrupt" ELSE "nojs"]
            /\ UNCHANGED outcome
    /\ UNCHANGED <<fpVars, peerVars, synthVars, plVars, storeVars, buildLock, bid, got, ret, out,
                   gateSaw, fresh, expect, lastCommit>>

\* db.Delete of the record whose .js sidecar is missing: lines 116-119.
Purge(p) ==
    /\ pc[p] = "purge"
    /\ db' = DbDelete(db, bid[p])
    /\ expect' = Touch(bid[p], p)
    /\ lastCommit' = [lastCommit EXCEPT ![bid[p]] = NoCommit]
    /\ pc' = [pc EXCEPT ![p] = "lock"]
    /\ UNCHANGED <<fpVars, peerVars, synthVars, plVars, jsFile, cssFile, buildLock, bid, got, ret, outcome, out,
                   verdict, gateSaw, fresh>>

LockUnguarded(p) ==
    /\ pc[p] = "lock"
    /\ buildLock' = p
    /\ gateSaw' = [gateSaw EXCEPT ![p] = Committed(bid[p])]
    /\ pc' = [pc EXCEPT ![p] = "run"]
    /\ UNCHANGED <<fpVars, peerVars, synthVars, plVars, storeVars, bid, got, ret, outcome, out,
                   verdict, fresh, expect, lastCommit>>

\* buildLock.Lock(): line 125.
Lock(p) ==
    /\ pc[p] = "lock"
    /\ buildLock = NoProc
    /\ buildLock' = p
    /\ gateSaw' = [gateSaw EXCEPT ![p] = Committed(bid[p])]
    /\ pc' = [pc EXCEPT ![p] = "run"]
    /\ UNCHANGED <<fpVars, peerVars, synthVars, plVars, storeVars, bid, got, ret, outcome, out,
                   verdict, fresh, expect, lastCommit>>

\* A step inside the lock fails: err is set and build returns.
Fail(p) ==
    /\ outcome' = [outcome EXCEPT ![p] = "error"]
    /\ pc' = [pc EXCEPT ![p] = "defer"]

\* The pipeline up to the bundler's output files: package metadata and
\* peers, the working directory and yarnAdd, probing, types, the entry stub,
\* esbuild and the compatibility prelude, lines 129-679.  It fails, or it
\* gives the importMeta map and the output files, with or without a .css.
Run(p) ==
    /\ pc[p] = "run"
    /\ \/ \E css \in BOOLEAN :
            /\ out' = [out EXCEPT ![p] = [importMeta |-> MetaOf(bid[p]), css |-> css]]
            /\ pc' = [pc EXCEPT ![p] = CommitNext("run", css)]
            /\ fresh' = [fresh EXCEPT ![p] = db[bid[p]] = NoRec]
            /\ UNCHANGED outcome
       \/ Fail(p) /\ UNCHANGED <<out, fresh>>
    /\ UNCHANGED <<fpVars, peerVars, synthVars, plVars, storeVars, buildLock, bid, got, ret,
                   verdict, gateSaw, expect, lastCommit>>

\* os.Create of the .css sidecar: lines 681-687.
CssCreate(p) ==
    /\ pc[p] = "cssCreate"
    /\ \/ /\ cssFile' = [cssFile EXCEPT ![bid[p]] = "partial"]
          /\ pc' = [pc EXCEPT ![p] = CommitNext("cssCreate", out[p].css)]
          /\ UNCHANGED outcome
       \/ Fail(p) /\ UNCHANGED cssFile
    /\ UNCHANGED <<fpVars, peerVars, synthVars, plVars, db, jsFile, buildLock, bid, got, ret, out, histVars>>

\* io.Copy into the .css sidecar: lines 690-694.
CssCopy(p) ==
    /\ pc[p] = "cssCopy"
    /\ \/ /\ cssFile' = [cssFile EXCEPT ![bid[p]] = "complete"]
          /\ pc' = [pc EXCEPT ![p] = CommitNext("cssCopy", out[p].css)]
          /\ UNCHANGED outcome
       \/ Fail(p) /\ UNCHANGED cssFile
    /\ UNCHANGED <<fpVars, peerVars, synthVars, plVars, db, jsFile, buildLock, bid, got, ret, out, histVars>>

\* os.Create of the .js sidecar: lines 698-703.
JsCreate(p) ==
    /\ pc[p] = "jsCreate"
    /\ \/ /\ jsFile' = [jsFile EXCEPT ![bid[p]] = "partial"]
          /\ pc' = [pc EXCEPT ![p] = CommitNext("jsCreate", out[p].css)]
          /\ UNCHANGED outcome
       \/ Fail(p) /\ UNCHANGED jsFile
    /\ UNCHANGED <<fpVars, peerVars, synthVars, plVars, db, cssFile, buildLock, bid, got, ret, out, histVars>>

\* io.Copy into the .js sidecar: lines 706-709.
JsCopy(p) ==
    /\ pc[p] = "jsCopy"
    /\ \/ /\ jsFile' = [jsFile EXCEPT ![bid[p]] = "complete"]
          /\ pc' = [pc EXCEPT ![p] = CommitNext("jsCopy", out[p].css)]
          /\ UNCHANGED outcome
       \/ Fail(p) /\ UNCHANGED jsFile
    /\ UNCHANGED <<fpVars, peerVars, synthVars, plVars, db, cssFile, buildLock, bid, got, ret, out, histVars>>

\* db.Put of the record, then ret.importMeta and ret.hasCSS: lines 711-722.
Put(p) ==
    /\ pc[p] = "put"
    /\ db' = [db EXCEPT ![bid[p]] = PutRecord(out[p].importMeta, out[p].css)]
    /\ ret' = [ret EXCEPT ![p] = [importMeta |-> out[p].importMeta, hasCSS |-> out[p].css]]
    /\ outcome' = [outcome EXCEPT ![p] = "built"]
    /\ pc' = [pc EXCEPT ![p] = CommitNext("put", out[p].css)]
    /\ lastCommit' = [lastCommit EXCEPT ![bid[p]] =
                          [importMeta |-> out[p].importMeta, hasCSS |-> out[p].css]]
    /\ expect' = Touch(bid[p], p)
    /\ wrote' = [wrote EXCEPT ![p] = TRUE]
    /\ UNCHANGED <<fpVars, peerVars, synthVars, buildDir, plLoopVars, jsFile, cssFile, buildLock,
                   bid, got, out, verdict, gateSaw, fresh>>

DeferredRemovesAfterSuccess(p) ==
    /\ pc[p] = "defer"
    /\ buildDir' = [buildDir EXCEPT ![p] = IF outcome[p] = "built" THEN RemoveAll(@) ELSE @]
    /\ buildLock' = NoProc
    /\ pc' = [pc EXCEPT ![p] = "done"]
    /\ UNCHANGED <<fpVars, peerVars, synthVars, plLoopVars, wrote, storeVars, bid, got, ret,
                   outcome, out, histVars>>

DeferredUnlocksAfterSuccess(p) ==
    /\ pc[p] = "defer"
    /\ buildDir' = [buildDir EXCEPT ![p] = RemoveAll(@)]
    /\ buildLock' = IF outcome[p] = "built" THEN NoProc ELSE buildLock
    /\ pc' = [pc EXCEPT ![p] = "done"]
    /\ UNCHANGED <<fpVars, peerVars, synthVars, plLoopVars, wrote, storeVars, bid, got, ret,
                   outcome, out, histVars>>

\* build returns from inside the lock: the deferred calls run last in, first
\* out, os.RemoveAll(buildDir) of line 216 when it was registered, then
\* buildLock.Unlock() of line 126.
Deferred(p) ==
    /\ pc[p] = "defer"
    /\ buildDir' = [buildDir EXCEPT ![p] = RemoveAll(@)]
    /\ buildLock' = NoProc
    /\ pc' = [pc EXCEPT ![p] = "done"]
    /\ UNCHANGED <<fpVars, peerVars, synthVars, plLoopVars, wrote, storeVars, bid, got, ret,
                   outcome, out, histVars>>

\* The caller has taken the result; the request is over.
Return(p) ==
    /\ pc[p] = "done"
    /\ pc' = [pc EXCEPT ![p] = "over"]
    /\ bid' = [bid EXCEPT ![p] = NoId]
    /\ got' = [got EXCEPT ![p] = NoRec]
    /\ ret' = [ret EXCEPT ![p] = NoCommit]
    /\ outcome' = [outcome EXCEPT ![p] = "none"]
    /\ out' = [out EXCEPT ![p] = NoOut]
    /\ verdict' = [verdict EXCEPT ![p] = "none"]
    /\ gateSaw' = [gateSaw EXCEPT ![p] = FALSE]
    /\ fresh' = [fresh EXCEPT ![p] = FALSE]
    /\ expect' = [expect EXCEPT ![p] = NoCommit]
    /\ buildDir' = [buildDir EXCEPT ![p] = "none"]
    /\ indirectRequires' = [indirectRequires EXCEPT ![p] = {}]
    /\ resultErrors' = [resultErrors EXCEPT ![p] = <<>>]
    /\ esbuildCalls' = [esbuildCalls EXCEPT ![p] = 0]
    /\ reported' = [reported EXCEPT ![p] = {}]
    /\ esbuildExternals' = [esbuildExternals EXCEPT ![p] = <<>>]
    /\ wrote' = [wrote EXCEPT ![p] = FALSE]
    /\ UNCHANGED <<fpVars, peerVars, synthVars, storeVars, buildLock, lastCommit>>

\* Outside build(): the .js sidecar of a stored record is deleted from disk.
RemoveJs ==
    \E id \in Ids :
        /\ db[id] /= NoRec
        /\ jsFile[id] /= "absent"
        /\ \A p \in Procs : ~(pc[p] \in GateSteps /\ bid[p] = id)
        /\ jsFile' = [jsFile EXCEPT ![id] = "absent"]
        /\ expect' = Touch(id, NoProc)
        /\ lastCommit' = [lastCommit EXCEPT ![id] = NoCommit]
        /\ UNCHANGED <<fpVars, peerVars, synthVars, plVars, db, cssFile, buildLock, callVars,
                       verdict, gateSaw, fresh>>

\* Outside build(): the stored importMeta of a record is no longer JSON.
CorruptRecord ==
    \E id \in Ids :
        /\ db[id] /= NoRec
        /\ DecodeOk(db[id].importMeta)
        /\ db' = [db EXCEPT ![id].importMeta = Garbage]
        /\ expect' = Touch(id, NoProc)
        /\ lastCommit' = [lastCommit EXCEPT ![id] = NoCommit]
        /\ UNCHANGED <<fpVars, peerVars, synthVars, plVars, jsFile, cssFile, buildLock, callVars,
                       verdict, gateSaw, fresh>>

\* The process stops and is started again: every call in progress is gone,
\* the lock is free, the store and the files are as they were.
Crash ==
    /\ \E p \in Procs : pc[p] \notin {"idle", "over"}
    /\ buildLock' = NoProc
    /\ pc' = [p \in Procs |-> IF pc[p] = "idle" THEN "idle" ELSE "over"]
    /\ bid' = [p \in Procs |-> NoId]
    /\ got' = [p \in Procs |-> NoRec]
    /\ ret' = [p \in Procs |-> NoCommit]
    /\ outcome' = [p \in Procs |-> "none"]
    /\ out' = [p \in Procs |-> NoOut]
    /\ verdict' = [p \in Procs |-> "none"]
    /\ gateSaw' = [p \in Procs |-> FALSE]
    /\ fresh' = [p \in Procs |-> FALSE]
    /\ expect' = [p \in Procs |-> NoCommit]
    /\ wrote' = [p \in Procs |-> FALSE]
    /\ UNCHANGED <<fpVars, peerVars, synthVars, buildDir, plLoopVars, storeVars, lastCommit>>

----------------------------------------------------------------------------
(* build(): the pipeline step by step, lines 129-679.  Run(p) above is the  *)
(* same pipeline taken in one step.                                         *)

\* The requests that are followed step by step through the pipeline.
PlProcs == {1}

\* The names api.Build can report as unresolved; <<>> is the empty name.
MissingNames == { <<>>, <<"fs">>, <<"x">> }

\* The Text of an esbuild error: Could not resolve "<name>" ...
ResolveText(n) == <<"Could not resolve ", "\"">> \o n \o <<"\"", " (mark it as external)">>

\* The Text of another esbuild error, one that quotes a name as well.
OtherText == <<"No loader is configured for ", "\"", "x", "\"">>

ErrTexts == { ResolveText(n) : n \in MissingNames } \cup { OtherText }

\* result.Errors: what an invocation of api.Build can report.
ErrorLists == SeqsUpTo(ErrTexts, MaxErrs)

\* strings.HasPrefix(e.Text, `Could not resolve "`)
IsCouldNotResolve(text) ==
    Len(text) >= 2 /\ text[1] = "Could not resolve " /\ text[2] = "\""

\* strings.Split(e.Text, `"`)[1]: the text between the first two quotes, or
\* after the first when there is no second.
MissingModule(text) ==
    LET Q == {i \in 1..Len(text) : text[i] = "\""}
        first == CHOOSE i \in Q : \A j \in Q : i <= j
        R == Q \ {first}
        second == IF R = {} THEN Len(text) + 1
                  ELSE CHOOSE i \in R : \A j \in R : i <= j
    IN SubSeq(text, first + 1, second - 1)

\* The names a list of errors reports as unresolved.
ReportedNames(errs) ==
    { MissingModule(errs[i]) : i \in {j \in 1..Len(errs) : IsCouldNotResolve(errs[j])} }

ScanErrorsResolveFirst(errs, ind, extra) ==
    LET new == { n \in ReportedNames(errs) : n /= <<>> /\ n \notin ind }
        other == \E i \in 1..Len(errs) : ~IsCouldNotResolve(errs[i])
    IN [fatal |-> other /\ new = {}, indirect |-> ind \cup new, extra |-> new]

ScanErrorsWithoutHas(errs, ind, extra) ==
    LET named == { n \in ReportedNames(errs) : n /= <<>> }
    IN [fatal |-> \E i \in 1..Len(errs) : ~IsCouldNotResolve(errs[i]),
        indirect |-> ind \cup named, extra |-> named]

\* The loop over result.Errors, lines 591-604: the names to retry with
\* (extraExternals), indirectRequires afterwards, and whether an error that
\* is no `Could not resolve` ended the loop and the build.
RECURSIVE ScanErrors(_, _, _)
ScanErrors(errs, ind, extra) ==
    IF errs = <<>> THEN [fatal |-> FALSE, indirect |-> ind, extra |-> extra]
    ELSE IF IsCouldNotResolve(Head(errs))
    THEN LET m == MissingModule(Head(errs))
         IN IF m /= <<>> /\ m \notin ind
            THEN ScanErrors(Tail(errs), ind \cup {m}, extra \cup {m})
            ELSE ScanErrors(Tail(errs), ind, extra)
    ELSE [fatal |-> TRUE, indirect |-> ind, extra |-> extra]

RECURSIVE ExtraExternals(_, _)
ExtraExternalsWithoutHas(errs, ind) ==
    IF errs = <<>> \/ ~IsCouldNotResolve(Head(errs)) THEN <<>>
    ELSE LET m == MissingModule(Head(errs))
         IN IF m /= <<>>
            THEN <<m>> \o ExtraExternals(Tail(errs), ind \cup {m})
            ELSE ExtraExternals(Tail(errs), ind)

\* extraExternals, lines 590-604: the names the loop over result.Errors
\* appends, in the order of the errors, each when indirectRequires does not
\* hold it yet.
ExtraExternals(errs, ind) ==
    IF errs = <<>> \/ ~IsCouldNotResolve(Head(errs)) THEN <<>>
    ELSE LET m == MissingModule(Head(errs))
         IN IF m /= <<>> /\ m \notin ind
            THEN <<m>> \o ExtraExternals(Tail(errs), ind \cup {m})
            ELSE ExtraExternals(Tail(errs), ind)

\* The externals before the first api.Build, lines 339-375: the peers, the
\* built-in modules of node and the names of options.external.
InitialExternals == { <<"fs">>, <<"react", "fs">>, <<"fs", "x">> }

\* A step of the pipeline goes on to `next`, or it fails and build returns.
PlStep(p, next) ==
    /\ \/ pc' = [pc EXCEPT ![p] = next] /\ UNCHANGED outcome
       \/ Fail(p)
    /\ UNCHANGED <<fpVars, peerVars, synthVars, plVars, storeVars, buildLock, bid, got, ret, out,
                   histVars>>

\* installList, getPackageInfo of every package, importMeta and the peers:
\* lines 129-211.
PlMeta(p) ==
    /\ pc[p] = "run"
    /\ PlStep(p, "mkdir")

\* ensureDir(buildDir) and defer os.RemoveAll(buildDir): lines 213-216.
\* ensureDir reports nothing; the directory is there afterwards, or is not.
PlMkdir(p) ==
    /\ pc[p] = "mkdir"
    /\ \E made \in {"exists", "none"} : buildDir' = [buildDir EXCEPT ![p] = made]
    /\ pc' = [pc EXCEPT ![p] = "chdir"]
    /\ UNCHANGED <<fpVars, peerVars, synthVars, plLoopVars, wrote, storeVars, buildLock, bid, got,
                   ret, outcome, out, histVars>>

\* os.Chdir(buildDir): lines 218-221.  It fails when the directory is missing.
PlChdir(p) ==
    /\ pc[p] = "chdir"
    /\ \/ /\ buildDir[p] = "exists"
          /\ pc' = [pc EXCEPT ![p] = "yarnAdd"]
          /\ UNCHANGED outcome
       \/ Fail(p)
    /\ UNCHANGED <<fpVars, peerVars, synthVars, plVars, storeVars, buildLock, bid, got, ret, out,
                   histVars>>

\* yarnAdd(installList...): lines 223-226.
PlYarnAdd(p) ==
    /\ pc[p] = "yarnAdd"
    /\ PlStep(p, "probe")

\* The exports of every package: lines 233-292.
PlProbe(p) ==
    /\ pc[p] = "probe"
    /\ PlStep(p, "types")

\* The types of every package and copyDTS: lines 294-337.
PlTypes(p) ==
    /\ pc[p] = "types"
    /\ PlStep(p, "externals")

\* The externals (package.json of every peer is parsed), the entry stub and
\* the define table: lines 339-458.
PlExternals(p) ==
    /\ pc[p] = "externals"
    /\ \/ /\ \E list \in InitialExternals :
                esbuildExternals' = [esbuildExternals EXCEPT ![p] = list]
          /\ pc' = [pc EXCEPT ![p] = "esbuild"]
          /\ UNCHANGED outcome
       \/ Fail(p) /\ UNCHANGED esbuildExternals
    /\ UNCHANGED <<fpVars, peerVars, synthVars, buildDir, indirectRequires, resultErrors, esbuildCalls,
                   reported, wrote, storeVars, buildLock, bid, got, ret, out, histVars>>

\* api.Build: lines 459-583.
PlEsbuild(p) ==
    /\ pc[p] = "esbuild"
    /\ \E errs \in ErrorLists :
          /\ resultErrors' = [resultErrors EXCEPT ![p] = errs]
          /\ reported' = [reported EXCEPT ![p] = @ \cup ReportedNames(errs)]
    /\ esbuildCalls' = [esbuildCalls EXCEPT ![p] = @ + 1]
    /\ pc' = [pc EXCEPT ![p] = "errors"]
    /\ UNCHANGED <<fpVars, peerVars, synthVars, buildDir, indirectRequires, esbuildExternals, wrote,
                   storeVars, buildLock, bid, got, ret, outcome, out, histVars>>

\* The errors of the result, lines 589-609: an error that is no `Could not
\* resolve` ends the build; new names go to the externals and api.Build runs
\* again; otherwise the build goes on to the output files of the result, the
\* .js prelude and the .css (lines 611-679).
PlErrors(p) ==
    /\ pc[p] = "errors"
    /\ LET scan == ScanErrors(resultErrors[p], indirectRequires[p], {})
       IN /\ indirectRequires' = [indirectRequires EXCEPT ![p] = scan.indirect]
          /\ esbuildExternals' = [esbuildExternals EXCEPT ![p] =
                 IF ~scan.fatal /\ scan.extra /= {}
                 THEN @ \o ExtraExternals(resultErrors[p], indirectRequires[p])
                 ELSE @]
          /\ IF scan.fatal
             THEN Fail(p) /\ UNCHANGED <<out, fresh>>
             ELSE IF scan.extra /= {}
             THEN /\ pc' = [pc EXCEPT ![p] = "esbuild"]
                  /\ UNCHANGED <<outcome, out, fresh>>
             ELSE \E css \in BOOLEAN :
                    /\ out' = [out EXCEPT ![p] =
                                   [importMeta |-> MetaOf(bid[p]), css |-> css]]
                    /\ pc' = [pc EXCEPT ![p] = CommitNext("run", css)]
                    /\ fresh' = [fresh EXCEPT ![p] = db[bid[p]] = NoRec]
                    /\ UNCHANGED outcome
    /\ UNCHANGED <<fpVars, peerVars, synthVars, buildDir, resultErrors, esbuildCalls, reported, wrote,
                   storeVars, buildLock, bid, got, ret,
                   verdict, gateSaw, expect, lastCommit>>

\* One step of a call inside the lock, the pipeline followed step by step.
PipelineDetailed(p) ==
    \/ PlMeta(p) \/ PlMkdir(p) \/ PlChdir(p) \/ PlYarnAdd(p) \/ PlProbe(p)
    \/ PlTypes(p) \/ PlExternals(p) \/ PlEsbuild(p) \/ PlErrors(p)
    \/ CssCreate(p) \/ CssCopy(p) \/ JsCreate(p) \/ JsCopy(p) \/ Put(p) \/ Deferred(p)

----------------------------------------------------------------------------
(* build(): the install list, the peers and the externals, lines 129-209   *)
(* and 339-375, for one request and the answers of the registry to it.     *)

\* The packages a peer run can request.
PrModules ==
    { Module(<<"a">>, <<"1">>, <<>>),
      Module(<<"a">>, <<"2">>, <<>>),
      Module(<<"react">>, <<"1">>, <<>>),
      Module(<<"react-dom">>, <<"2">>, <<>>),
      Module(<<"react-router">>, <<"1">>, <<>>) }

\* The external overrides a peer run can come with.
PrExternalLists ==
    { <<>>, <<Module(<<"react">>, <<"9">>, <<>>)>>, <<Module(<<"q">>, <<"9">>, <<>>)>> }

PrRequests == [ packages : SeqsUpTo(PrModules, MaxPeerPkgs) \ {<<>>}, external : PrExternalLists ]

\* The names a package.json of the registry can declare as peers or as
\* dependencies.
DeclaredNames == { <<"q">>, <<"react">> }

\* builtInNodeModules, as far as a run meets it.
builtInNodeModules == { <<"fs">> }

\* What nodeEnv.getPackageInfo(pkg.name, pkg.version) can answer: the name,
\* the resolved version, the declared peers with their ranges, the
\* dependencies, and whether an @types package is put on the install list
\* (lines 148-158).
Infos(pkg) ==
    { [Name |-> pkg.name,
       Version |-> pkg.version \o <<".", "0">>,
       PeerDependencies |-> [n \in peers |-> <<"^">> \o pkg.version],
       Dependencies |-> deps,
       atTypes |-> t] :
          peers \in SUBSET DeclaredNames, deps \in SUBSET DeclaredNames, t \in BOOLEAN }

\* The answers of the registry for the packages of a request, one each.
RECURSIVE InfoLists(_)
InfoLists(pkgs) ==
    IF pkgs = <<>> THEN { <<>> }
    ELSE { <<a>> \o rest : a \in Infos(Head(pkgs)), rest \in InfoLists(Tail(pkgs)) }

\* name@version, an entry of installList.
InstallEntry(name, version) == name \o <<"@">> \o version

\* installList after the loops of lines 130-132 and 137-176: the requested
\* packages and the @types packages.
InstallListOfPackages(pkgs, infos) ==
    { InstallEntry(pkgs[i].name, pkgs[i].version) : i \in 1..Len(pkgs) }
        \cup { InstallEntry(<<"@", "types", "/">> \o infos[i].Name, <<"types">>) :
                   i \in {j \in 1..Len(pkgs) : infos[j].atTypes} }

\* The map peerDependencies after the loop of lines 137-176: every package
\* in turn writes its peers into the one map, react of react-dom with the
\* version of react-dom.
RECURSIVE CollectPeers(_, _)
CollectPeers(infos, acc) ==
    IF infos = <<>> THEN acc
    ELSE LET p == Head(infos)
             next == [n \in DOMAIN acc \cup DOMAIN p.PeerDependencies |->
                         IF n \in DOMAIN p.PeerDependencies
                         THEN IF n = <<"react">> /\ p.Name = <<"react-dom">>
                              THEN p.Version
                              ELSE p.PeerDependencies[n]
                         ELSE acc[n]]
         IN CollectPeers(Tail(infos), next)

\* The map importMeta after the loop: the entry of an import path is the
\* answer for the last package with that import path (line 175).
ImportMetaOf(pkgs, infos) ==
    LET paths == { ImportPath(pkgs[i]) : i \in 1..Len(pkgs) }
        last(ip) == CHOOSE i \in 1..Len(pkgs) :
                        /\ ImportPath(pkgs[i]) = ip
                        /\ \A j \in 1..Len(pkgs) : ImportPath(pkgs[j]) = ip => j <= i
    IN [ip \in paths |-> infos[last(ip)]]

\* Lines 180-195: a declared peer is a peer unless a requested package has
\* its name or an entry of importMeta has it among its dependencies.
IsPeer(name, pkgs, importMeta) ==
    /\ \A i \in 1..Len(pkgs) : pkgs[i].name /= name
    /\ \A ip \in DOMAIN importMeta : name \notin importMeta[ip].Dependencies

\* Lines 200-205: the version of the first external with that name, else
\* the version in peerDependencies.
PeerVersion(name, version, external) ==
    LET I == {i \in 1..Len(external) : external[i].name = name}
    IN IF I = {} THEN version
       ELSE external[CHOOSE i \in I : \A j \in I : i <= j].version

\* Lines 339-375: the peers, the built-in modules and the externals of the
\* request, the last two without the names of the requested packages.
ExternalsOf(peers, pkgs, external) ==
    LET self(name) == \E i \in 1..Len(pkgs) : pkgs[i].name = name
    IN peers
         \cup { n \in builtInNodeModules : ~self(n) }
         \cup { external[i].name : i \in {j \in 1..Len(external) : ~self(external[j].name)} }

\* build() is called; a request of several packages has both its lists
\* sorted (lines 91-92) before the pipeline reads them.
PrCall ==
    /\ prPc = "idle"
    /\ \E o \in PrRequests :
          prReq' = IF Len(o.packages) = 1 THEN o
                   ELSE [packages |-> SortSlice(o.packages),
                         external |-> SortSlice(o.external)]
    /\ prPc' = "meta"
    /\ UNCHANGED <<fpVars, buildVars, plVars, synthVars, prInfo, peerDependencies, peerPackages,
                   installList, externals>>

\* Lines 129-176: the registry answers for every package, the same for the
\* same package, or it fails.
PrMeta ==
    /\ prPc = "meta"
    /\ \/ \E infos \in InfoLists(prReq.packages) :
             /\ \A i, j \in 1..Len(infos) :
                    prReq.packages[i] = prReq.packages[j] => infos[i] = infos[j]
             /\ prInfo' = infos
             /\ installList' = InstallListOfPackages(prReq.packages, infos)
             /\ peerDependencies' = CollectPeers(infos, <<>>)
             /\ prPc' = "peers"
       \/ /\ prPc' = "error"
          /\ UNCHANGED <<prInfo, installList, peerDependencies>>
    /\ UNCHANGED <<fpVars, buildVars, plVars, synthVars, prReq, peerPackages, externals>>

\* Lines 178-209: the true peers, each put on the install list.
PrPeers ==
    /\ prPc = "peers"
    /\ LET importMeta == ImportMetaOf(prReq.packages, prInfo)
           peers == { n \in DOMAIN peerDependencies : IsPeer(n, prReq.packages, importMeta) }
       IN /\ peerPackages' = peers
          /\ installList' = installList \cup
                 { InstallEntry(n, PeerVersion(n, peerDependencies[n], prReq.external)) :
                       n \in peers }
    /\ prPc' = "externals"
    /\ UNCHANGED <<fpVars, buildVars, plVars, synthVars, prReq, prInfo, peerDependencies, externals>>

\* Lines 339-375: the externals of the bundler; the package.json of a peer
\* can fail to parse.
PrExternals ==
    /\ prPc = "externals"
    /\ \/ /\ externals' = ExternalsOf(peerPackages, prReq.packages, prReq.external)
          /\ prPc' = "done"
       \/ /\ peerPackages /= {}
          /\ prPc' = "error"
          /\ UNCHANGED externals
    /\ UNCHANGED <<fpVars, buildVars, plVars, synthVars, prReq, prInfo, peerDependencies,
                   peerPackages, installList>>

NextPeers == PrCall \/ PrMeta \/ PrPeers \/ PrExternals

----------------------------------------------------------------------------
(* build(): one invocation of api.Build, lines 436-679: the resolver of the *)
(* plugin, the .js output of the bundler and the prelude written before it. *)
(* Text is a sequence of pieces; a piece stands for the same bytes wherever *)
(* it occurs.                                                               *)

MaxResolves == 2    \* most calls of the resolver in a bundler run
MaxOut == 2         \* most pieces of source text in the bundle of a bundler run

\* ensureExt(s, ext): ext is added unless s ends in it.
ensureExt(s, ext) ==
    IF Len(s) >= Len(ext) /\ SubSeq(s, Len(s) - Len(ext) + 1, Len(s)) = ext
    THEN s ELSE s \o ext

\* utils.SplitByFirstByte(s, c): the text before the first c, all of s without one.
SplitByFirstByte(s, c) ==
    LET I == {i \in 1..Len(s) : s[i] = c}
    IN IF I = {} THEN s ELSE SubSeq(s, 1, (CHOOSE i \in I : \A j \in I : i <= j) - 1)

\* url.QueryEscape on the characters that occur in import paths.
QueryEscape(s) ==
    [i \in 1..Len(s) |-> IF s[i] = "/" THEN "%2F" ELSE IF s[i] = "@" THEN "%40" ELSE s[i]]

\* identify(importPath), lines 725-736.
identify(importPath) ==
    [i \in 1..Len(importPath) |->
        IF importPath[i] \in {"/", "-", "@", "."} THEN "_" ELSE importPath[i]]

\* moduleSlice.Get(name): the first module of that name.
SliceGet(slice, name) ==
    LET I == {i \in 1..Len(slice) : slice[i].name = name}
    IN IF I = {} THEN [found |-> FALSE, m |-> Module(<<>>, <<>>, <<>>)]
       ELSE [found |-> TRUE, m |-> slice[CHOOSE i \in I : \A j \in I : i <= j]]

DotJs == <<".", "js">>

\* The names of denoStdNodeModules, the map polyfilledBuiltInNodeModules and
\* the names with a file polyfills/node_<name>.js in embedFS.
denoStdNodeModules == { <<"fs">> }

polyfilledBuiltInNodeModules ==
    [n \in { <<"stream">> } |-> <<"stream", "-", "browserify">>]

embeddedPolyfills == { <<"fs">> }

\* nodeModulesDir (line 214), from the working directory.
nodeModulesDir == <<"node_modules">>

\* The import paths the filter of the plugin can match: a name enters the
\* externals as a peer, a built-in module, an external of the request or as
\* the name of a `Could not resolve` error.
RsPaths ==
    { <<"a">>, <<"react">>, <<"@", "s", "/", "x">>, <<"@", "s", "/", "x", "/", "q">>,
      <<"b", ".", "js">>, <<"fs">>, <<"stream">> }

\* The options of a bundler run, with meta.Main of the requested package,
\* peerPackages after lines 341-350 (name -> Version of the installed peer)
\* and the hostname of the service.
RsOptions ==
    [ single       : BOOLEAN,
      packages     : { << Module(<<"a">>, <<"1">>, <<>>) >> },
      main         : { <<"lib">> },
      external     : { <<>>,
                       << Module(<<"@", "s", "/", "x">>, <<"1">>, <<>>) >>,
                       << Module(<<"b", ".", "js">>, <<"1">>, <<>>) >> },
      peerPackages : { <<>>, [n \in { <<"react">> } |-> <<"2">>] },
      target       : FpTargets,
      isDev        : BOOLEAN,
      hostname     : { <<"localhost">>, <<"esm.sh">> } ]

\* No call of the resolver yet.
NoArgs == [path |-> <<>>]

\* peerModulesForCommonjs.Set(name, value)
MapSet(map, name, value) ==
    [n \in DOMAIN map \cup {name} |-> IF n = name THEN value ELSE map[n]]

\* Lines 551-560: the path of a package the resolver knows the version of.
KnownPathname(o, resolvePath, version) ==
    LET packageName == IF Len(resolvePath) > 0 /\ resolvePath[1] = "@" THEN resolvePath
                       ELSE SplitByFirstByte(resolvePath, "/")
        filename0 == PathBase(resolvePath)
        filename == IF o.isDev THEN filename0 \o <<".development">> ELSE filename0
    IN <<"/", "v">> \o Itoa(buildVersion) \o <<"/">> \o packageName \o <<"@">> \o version
           \o <<"/">> \o o.target \o <<"/">> \o ensureExt(filename, DotJs)

\* Lines 568-572: the path of a name the resolver knows nothing of.
ErrorPathname(o, resolvePath) ==
    (IF o.hostname /= <<"localhost">> THEN <<"https://">> \o o.hostname ELSE <<>>)
        \o <<"/_error.js?type=resolve&name=">> \o QueryEscape(resolvePath)

\* The end of each branch: an ES module importer gets the pathname, a
\* CommonJS importer keeps resolvePath and the map takes the pathname.
External(resolvePath, pathname, esm, map) ==
    [Path |-> IF esm THEN pathname ELSE resolvePath,
     External |-> TRUE,
     err |-> FALSE,
     map |-> IF esm THEN map ELSE MapSet(map, resolvePath, pathname)]

\* The OnResolve callback, lines 480-578.
OnResolve(o, path, env, map) ==
    IF o.single /\ path = ImportPath(o.packages[1])
    THEN LET name == o.packages[1].name
         IN CASE env.entry = "file" ->
                   [Path |-> PathJoin(<<nodeModulesDir, name, ensureExt(o.main, DotJs)>>),
                    External |-> FALSE, err |-> FALSE, map |-> map]
              [] env.entry = "index" ->
                   [Path |-> PathJoin(<<nodeModulesDir, name, o.main, <<"index">> \o DotJs>>),
                    External |-> FALSE, err |-> FALSE, map |-> map]
              [] OTHER ->
                   [Path |-> path, External |-> TRUE, err |-> FALSE, map |-> map]
    ELSE LET ext == SliceGet(o.external, path)
             peer == path \in DOMAIN o.peerPackages
             ok == ext.found \/ peer
             version == IF ext.found THEN ext.m.version
                        ELSE IF peer THEN o.peerPackages[path] ELSE <<>>
         IN IF ok THEN External(path, KnownPathname(o, path, version), env.esm, map)
            ELSE IF o.target = <<"deno">> /\ path \in denoStdNodeModules
            THEN External(path, <<"/", "v">> \o Itoa(buildVersion) \o <<"/", "_deno_std_node_">>
                                    \o path \o DotJs, env.esm, map)
            ELSE IF path \in DOMAIN polyfilledBuiltInNodeModules
            THEN IF env.infoOk
                 THEN LET polyfill == polyfilledBuiltInNodeModules[path]
                      IN External(polyfill, KnownPathname(o, polyfill, env.latest),
                                  env.esm, map)
                 ELSE [Path |-> path, External |-> FALSE, err |-> TRUE, map |-> map]
            ELSE IF path \in embeddedPolyfills
            THEN External(path, <<"/", "v">> \o Itoa(buildVersion) \o <<"/", "_node_">>
                                    \o path \o DotJs, env.esm, map)
            ELSE IF env.esm
            THEN External(ErrorPathname(o, path), ErrorPathname(o, path), TRUE, map)
            ELSE External(path, <<>>, FALSE, map)

\* bytes.Contains(s, pattern)
Contains(s, pattern) ==
    \E i \in 0..(Len(s) - Len(pattern)) : SubSeq(s, i + 1, i + Len(pattern)) = pattern

\* bytes.ReplaceAll(s, old, new) for a non-empty old.
RECURSIVE BytesReplaceAll(_, _, _)
BytesReplaceAll(s, old, new) ==
    IF Len(s) < Len(old) THEN s
    ELSE IF SubSeq(s, 1, Len(old)) = old
    THEN new \o BytesReplaceAll(SubSeq(s, Len(old) + 1, Len(s)), old, new)
    ELSE <<Head(s)>> \o BytesReplaceAll(Tail(s), old, new)

\* The identifiers of the define table, lines 442-458.
Sentinel(name) == <<"__", name, "$">>

\* The define table applied to a piece of source text.
Define(piece) ==
    CASE piece \in { <<"process">>, <<"global", ".", "process">> } -> Sentinel("process")
      [] piece \in { <<"Buffer">>, <<"global", ".", "Buffer">> } -> Sentinel("Buffer")
      [] piece \in { <<"setImmediate">>, <<"global", ".", "setImmediate">> } ->
             Sentinel("setImmediate")
      [] piece \in { <<"clearImmediate">>, <<"global", ".", "clearImmediate">> } ->
             <<"clearTimeout">>
      [] piece \in { <<"require", ".", "resolve">>, <<"global", ".", "require", ".", "resolve">> } ->
             Sentinel("rResolve")
      [] piece = <<"global">> -> Sentinel("global")
      [] OTHER -> piece

\* require("<name>") as api.Build writes it for an external of a CommonJS importer.
RequireCall(name) == <<"require(", "\"">> \o name \o <<"\"", ")">>

\* The pieces of source text a bundle is made of.
RsSourcePieces ==
    { <<"process">>, <<"Buffer">>, <<"setImmediate">>, <<"clearImmediate">>, <<"require", ".", "resolve">>, <<"global">>, <<"$">>,
      RequireCall(<<"react">>) }

\* The .js output of api.Build for a bundle of the given pieces.
RECURSIVE BundleOutput(_)
BundleOutput(pieces) ==
    IF pieces = <<>> THEN <<>> ELSE Define(Head(pieces)) \o BundleOutput(Tail(pieces))

\* A statement of the prelude: how it binds which identifier to what.
Statement(kind, id, text) == [kind |-> kind, id |-> id, text |-> text]

\* Lines 651-664: the imports of the CommonJS peers with an import path and
\* the output with their require calls replaced.
RECURSIVE PeerImports(_, _, _)
PeerImports(map, names, content) ==
    IF names = {} THEN [prelude |-> <<>>, content |-> content]
    ELSE LET name == CHOOSE n \in names : TRUE
             rest == PeerImports(map, names \ {name}, content)
             id == <<"__">> \o identify(name) \o <<"$">>
         IN IF map[name] /= <<>>
            THEN [prelude |-> <<Statement("import", id, map[name])>> \o rest.prelude,
                  content |-> BytesReplaceAll(rest.content, RequireCall(name), id)]
            ELSE rest

\* Lines 644-679 for a .js output file: what is written to jsContentBuf
\* before the output, and the output as it is written.
PostProcess(content, map) ==
    LET peers == PeerImports(map, DOMAIN map, content)
        nodeUrl(n) == <<"/", "v">> \o Itoa(buildVersion) \o <<"/", "_node_", n>> \o DotJs
    IN [prelude |->
            (IF Contains(content, Sentinel("process"))
             THEN <<Statement("import", Sentinel("process"), nodeUrl("process"))>> ELSE <<>>)
         \o (IF Contains(content, Sentinel("Buffer"))
             THEN <<Statement("importNamed", Sentinel("Buffer"), nodeUrl("buffer"))>> ELSE <<>>)
         \o peers.prelude
         \o (IF Contains(peers.content, Sentinel("global"))
             THEN <<Statement("var", Sentinel("global"), <<"window">>)>> ELSE <<>>)
         \o (IF Contains(peers.content, Sentinel("setImmediate") \o <<"$">>)
             THEN <<Statement("assign", Sentinel("setImmediate"), <<"setTimeout">>)>> ELSE <<>>)
         \o (IF Contains(peers.content, Sentinel("rResolve"))
             THEN <<Statement("var", Sentinel("rResolve"), <<"v => v">>)>> ELSE <<>>),
        content |-> peers.content]

\* Lines 436-462: api.Build is invoked for a request; the map is new.
RsBuild ==
    /\ rsPc = "idle"
    /\ \E o \in RsOptions : rsOpt' = o
    /\ peerModulesForCommonjs' = <<>>
    /\ rsPc' = "resolve"
    /\ UNCHANGED <<fpVars, buildVars, plVars, peerVars, pbVars, clVars, rsArgs, rsResult,
                   rsBefore, rsCalls, outputContent, jsContentBuf>>

\* The bundler calls the resolver for an import its filter matches; an
\* error of the resolver ends the invocation.  Outside the request the call
\* finds whether the importer probes as an ES module, which entry file of
\* the requested package exists, and whether the registry knows the
\* polyfill and in which version.
RsResolve ==
    /\ rsPc = "resolve"
    /\ rsCalls < MaxResolves
    /\ \E path \in RsPaths,
          env \in [ esm : BOOLEAN, entry : {"file", "index", "none"}, infoOk : BOOLEAN,
                    latest : { <<"3">> } ] :
          LET r == OnResolve(rsOpt, path, env, peerModulesForCommonjs)
          IN /\ rsArgs' = [path |-> path, esm |-> env.esm]
             /\ rsResult' = [Path |-> r.Path, External |-> r.External, err |-> r.err]
             /\ peerModulesForCommonjs' = r.map
             /\ rsPc' = IF r.err THEN "failed" ELSE "resolve"
    /\ rsBefore' = peerModulesForCommonjs
    /\ rsCalls' = rsCalls + 1
    /\ UNCHANGED <<fpVars, buildVars, plVars, peerVars, pbVars, clVars, rsOpt,
                   outputContent, jsContentBuf>>

\* api.Build returns the .js output file.
RsOutput ==
    /\ rsPc = "resolve"
    /\ \E pieces \in SeqsUpTo(RsSourcePieces, MaxOut) : outputContent' = BundleOutput(pieces)
    /\ rsArgs' = NoArgs
    /\ rsResult' = [Path |-> <<>>]
    /\ rsBefore' = <<>>
    /\ rsCalls' = 0
    /\ rsPc' = "output"
    /\ UNCHANGED <<fpVars, buildVars, plVars, peerVars, pbVars, clVars, rsOpt,
                   peerModulesForCommonjs, jsContentBuf>>

\* Lines 640-679: the prelude and the output are written to jsContentBuf.
RsPostProcess ==
    /\ rsPc = "output"
    /\ jsContentBuf' = PostProcess(outputContent, peerModulesForCommonjs)
    /\ rsPc' = "done"
    /\ UNCHANGED <<fpVars, buildVars, plVars, peerVars, pbVars, clVars, rsOpt, rsArgs,
                   rsResult, rsBefore, rsCalls, peerModulesForCommonjs, outputContent>>

----------------------------------------------------------------------------
(* build(): importMeta, the probing of the entries and the entry stub,     *)
(* lines 135-176, 233-292 and 377-435, for one request, the registry's     *)
(* answer to it and the files the install left.                            *)

MaxProbePkgs == 2   \* longest packages list of a probe run

\* The packages a probe run can request: one name, with and without a submodule.
PbRequests ==
    [ packages : SeqsUpTo({ Module(<<"a">>, <<"1">>, <<>>), Module(<<"a">>, <<"1">>, <<"q">>) },
                          MaxProbePkgs) \ {<<>>} ]

\* What a probe run finds outside the request.  info: the NpmPackage that
\* getPackageInfo answers, where main, module, type and the "import" entry
\* of the defined exports can each be missing.  nested: the file
\* <pkgDir>/<submodule>/package.json, missing, or its main, module and
\* types.  esm, esmExports: what parseESModuleExports says of the entry it
\* is asked about.  cjsExports: what parseCJSModuleExports enumerates.
PbEnvs ==
    [ info : [ Name : { <<"a">> },
               Main : { <<>>, <<"main">> },
               Module : { <<>>, <<"mod">> },
               Type : { <<>>, <<"module">> },
               ImportExport : { <<>>, <<"imp">> },
               Types : { <<"t">> } ],
      nested : { [exists |-> FALSE] }
                  \cup [ exists : {TRUE}, Main : { <<>>, <<"m">> },
                         Module : { <<>>, <<"n">> }, Types : { <<>> } ],
      esm : BOOLEAN,
      esmExports : { <<"e">>, <<"default", "e">> },
      cjsExports : { <<>>, <<"default", "c">>, <<"c", "import">> } ]

\* Lines 143-170: the ImportMeta of a package from the registry's answer.
MetaOfInfo(pkg, info) ==
    LET module1 == IF info.Module = <<>> /\ info.Type = <<"module">> THEN info.Main
                   ELSE info.Module
        module2 == IF module1 = <<>> /\ info.ImportExport /= <<>> THEN info.ImportExport
                   ELSE module1
    IN IF pkg.submodule /= <<>>
       THEN [Name |-> info.Name, Main |-> pkg.submodule, Module |-> <<>>, Type |-> info.Type,
             Types |-> <<>>, Exports |-> <<>>]
       ELSE [Name |-> info.Name, Main |-> info.Main, Module |-> module2, Type |-> info.Type,
             Types |-> info.Types, Exports |-> <<>>]

\* Lines 137-176: importMeta after the loop over the packages; a later
\* package of the same import path replaces the earlier one.
RECURSIVE ImportMetaLoop(_, _, _)
ImportMetaLoop(pkgs, info, importMeta) ==
    IF pkgs = <<>> THEN importMeta
    ELSE ImportMetaLoop(Tail(pkgs), info,
                        MapSet(importMeta, ImportPath(Head(pkgs)),
                               MetaOfInfo(Head(pkgs), info)))

\* Lines 238-258: the nested package.json of a submodule re-derives main,
\* module and types.
WithNested(meta, pkg, nested) ==
    [meta EXCEPT
        !.Main = IF nested.Main /= <<>> THEN PathJoin(<<pkg.submodule, nested.Main>>) ELSE @,
        !.Module = IF nested.Module /= <<>> THEN PathJoin(<<pkg.submodule, nested.Module>>)
                   ELSE IF meta.Type = <<"module">> /\ nested.Main /= <<>>
                   THEN PathJoin(<<pkg.submodule, nested.Main>>)
                   ELSE @,
        !.Types = IF nested.Types /= <<>> THEN PathJoin(<<pkg.submodule, nested.Types>>) ELSE @]

ProbeOneKeepsFakeModule(meta, pkg, env) ==
    LET m1 == IF pkg.submodule /= <<>> /\ env.nested.exists
              THEN WithNested(meta, pkg, env.nested) ELSE meta
    IN IF pkg.submodule /= <<>> /\ ~env.nested.exists /\ env.esm
       THEN [meta |-> [m1 EXCEPT !.Module = pkg.submodule, !.Exports = env.esmExports],
             shape |-> "esm"]
       ELSE IF m1.Module /= <<>> /\ env.esm
       THEN [meta |-> [m1 EXCEPT !.Exports = env.esmExports], shape |-> "esm"]
       ELSE [meta |-> [m1 EXCEPT !.Exports = env.cjsExports], shape |-> "cjs"]

\* Lines 233-291 for one package: its ImportMeta after the probing, and
\* which probe gave the exports.
ProbeOne(meta, pkg, env) ==
    LET m1 == IF pkg.submodule /= <<>> /\ env.nested.exists
              THEN WithNested(meta, pkg, env.nested) ELSE meta
    IN IF pkg.submodule /= <<>> /\ ~env.nested.exists /\ env.esm
       THEN [meta |-> [m1 EXCEPT !.Module = pkg.submodule, !.Exports = env.esmExports],
             shape |-> "esm"]
       ELSE IF m1.Module /= <<>> /\ env.esm
       THEN [meta |-> [m1 EXCEPT !.Exports = env.esmExports], shape |-> "esm"]
       ELSE [meta |-> [m1 EXCEPT !.Module = <<>>, !.Exports = env.cjsExports],
             shape |-> "cjs"]

\* Lines 233-292: the loop over the packages.
RECURSIVE ProbeLoop(_, _, _, _)
ProbeLoop(pkgs, env, importMeta, shapes) ==
    IF pkgs = <<>> THEN [importMeta |-> importMeta, shapes |-> shapes]
    ELSE LET importPath == ImportPath(Head(pkgs))
             r == ProbeOne(importMeta[importPath], Head(pkgs), env)
         IN ProbeLoop(Tail(pkgs), env, MapSet(importMeta, importPath, r.meta),
                      MapSet(shapes, importPath, r.shape))

\* A statement of the stub: its form, the import path it reads from and
\* the names it lists.
StubStatement(form, importPath, names) ==
    [form |-> form, from |-> importPath, names |-> names]

\* meta.Exports without "default" and "import", lines 383-391.
NamedExports(exports) == SelectSeq(exports, LAMBDA n : n \notin {"default", "import"})

HasDefaultExport(exports) == \E i \in 1..Len(exports) : exports[i] = "default"

SingleStubDefaultAlways(importPath, meta) ==
    IF meta.Module /= <<>>
    THEN (IF Len(NamedExports(meta.Exports)) > 0
          THEN <<StubStatement("export * from", importPath, <<>>)>> ELSE <<>>)
         \o <<StubStatement("export { default } from", importPath, <<>>)>>
    ELSE <<StubStatement("import default", importPath, <<>>)>>
         \o (IF Len(NamedExports(meta.Exports)) > 0
             THEN <<StubStatement("import * as", importPath, <<>>),
                    StubStatement("export const {names} =", importPath,
                                  NamedExports(meta.Exports))>>
             ELSE <<>>)
         \o <<StubStatement("export default", importPath, <<>>)>>

\* Lines 378-403: the stub of a single-package request.
SingleStub(importPath, meta) ==
    IF meta.Module /= <<>>
    THEN (IF Len(NamedExports(meta.Exports)) > 0
          THEN <<StubStatement("export * from", importPath, <<>>)>> ELSE <<>>)
         \o (IF HasDefaultExport(meta.Exports)
             THEN <<StubStatement("export { default } from", importPath, <<>>)>> ELSE <<>>)
    ELSE <<StubStatement("import default", importPath, <<>>)>>
         \o (IF Len(NamedExports(meta.Exports)) > 0
             THEN <<StubStatement("import * as", importPath, <<>>),
                    StubStatement("export const {names} =", importPath,
                                  NamedExports(meta.Exports))>>
             ELSE <<>>)
         \o <<StubStatement("export default", importPath, <<>>)>>

\* Lines 405-433: the statements of one package of a multi-package request.
BundleStubOf(importPath, meta) ==
    IF meta.Module /= <<>>
    THEN <<StubStatement("export * as star from", importPath, <<>>)>>
         \o (IF HasDefaultExport(meta.Exports)
             THEN <<StubStatement("export { default as } from", importPath, <<>>)>>
             ELSE <<>>)
    ELSE IF meta.Main /= <<>>
    THEN (IF HasDefaultExport(meta.Exports)
          THEN <<StubStatement("import default", importPath, <<>>)>>
          ELSE <<StubStatement("import * as", importPath, <<>>)>>)
         \o <<StubStatement("export { as default }", importPath, <<>>)>>
    ELSE <<StubStatement("export const default = null", importPath, <<>>)>>

RECURSIVE BundleStub(_, _)
BundleStub(pkgs, importMeta) ==
    IF pkgs = <<>> THEN <<>>
    ELSE BundleStubOf(ImportPath(Head(pkgs)), importMeta[ImportPath(Head(pkgs))])
             \o BundleStub(Tail(pkgs), importMeta)

\* Lines 377-435: the stub written to buf.
EntryStub(pkgs, importMeta) ==
    IF Len(pkgs) = 1
    THEN SingleStub(ImportPath(pkgs[1]), importMeta[ImportPath(pkgs[1])])
    ELSE BundleStub(pkgs, importMeta)

\* build() is called; the registry and the files are what they are.
PbCall ==
    /\ pbPc = "idle"
    /\ \E o \in PbRequests : pbReq' = o
    /\ \E env \in PbEnvs : pbEnv' = env
    /\ pbPc' = "meta"
    /\ UNCHANGED <<fpVars, buildVars, plVars, peerVars, rsVars, clVars, probeMeta, probed,
                   entryStub>>

\* Lines 135-176: importMeta, or getPackageInfo fails.
PbMeta ==
    /\ pbPc = "meta"
    /\ \/ /\ probeMeta' = ImportMetaLoop(pbReq.packages, pbEnv.info, <<>>)
          /\ pbPc' = "probe"
       \/ /\ pbPc' = "error"
          /\ UNCHANGED probeMeta
    /\ UNCHANGED <<fpVars, buildVars, plVars, peerVars, rsVars, clVars, pbReq, pbEnv, probed,
                   entryStub>>

\* Lines 233-292: the entries are probed, or a probe or the parsing of a
\* nested package.json fails.
PbProbe ==
    /\ pbPc = "probe"
    /\ \/ LET r == ProbeLoop(pbReq.packages, pbEnv, probeMeta, <<>>)
          IN /\ probeMeta' = r.importMeta
             /\ probed' = r.shapes
             /\ pbPc' = "stub"
       \/ /\ pbPc' = "error"
          /\ UNCHANGED <<probeMeta, probed>>
    /\ UNCHANGED <<fpVars, buildVars, plVars, peerVars, rsVars, clVars, pbReq, pbEnv,
                   entryStub>>

\* Lines 377-435: the stub is written; importMeta is what build commits.
PbStub ==
    /\ pbPc = "stub"
    /\ entryStub' = EntryStub(pbReq.packages, probeMeta)
    /\ pbPc' = "done"
    /\ UNCHANGED <<fpVars, buildVars, plVars, peerVars, rsVars, clVars, pbReq, pbEnv,
                   probeMeta, probed>>

----------------------------------------------------------------------------
(* build(): ret.buildID of two single-package requests, lines 74-88        *)

\* The single-package requests of a collision run.
ClRequests ==
    [ packages : { <<m>> : m \in { Module(<<"a">>, <<"1">>, <<>>),
                                  Module(<<"a">>, <<"2">>, <<>>),
                                  Module(<<"b">>, <<"1">>, <<>>),
                                  Module(<<"a">>, <<"1">>, <<"a">>),
                                  Module(<<"a">>, <<"1">>, <<"a", ".development">>) } },
      external : { <<>>,
                   << Module(<<"@", "s", "/", "b">>, <<"1">>, <<>>) >>,
                   << Module(<<"@", "s", "_", "b">>, <<"1">>, <<>>) >> },
      target   : FpTargets,
      isDev    : BOOLEAN ]

\* Two requests reach build(), one after the other.
ClCall ==
    /\ clReq = <<>>
    /\ \E o1 \in ClRequests, o2 \in ClRequests : clReq' = <<o1, o2>>
    /\ UNCHANGED <<fpVars, buildVars, plVars, peerVars, rsVars, pbVars, clId>>

\* build() computes ret.buildID of the next of the two.
ClBuild ==
    /\ clReq /= <<>>
    /\ Len(clId) < Len(clReq)
    /\ clId' = Append(clId, BuildID(clReq[Len(clId) + 1]))
    /\ UNCHANGED <<fpVars, buildVars, plVars, peerVars, rsVars, pbVars, clReq>>

\* No bundler run, no probe run and no collision run.
SynthIdle ==
    /\ rsOpt = NoReq
    /\ rsArgs = NoArgs
    /\ rsResult = [Path |-> <<>>]
    /\ rsBefore = <<>>
    /\ rsCalls = 0
    /\ rsPc = "idle"
    /\ peerModulesForCommonjs = <<>>
    /\ outputContent = <<>>
    /\ jsContentBuf = [prelude |-> <<>>, content |-> <<>>]
    /\ pbReq = NoReq
    /\ pbEnv = [esm |-> FALSE]
    /\ probeMeta = <<>>
    /\ probed = <<>>
    /\ entryStub = <<>>
    /\ pbPc = "idle"
    /\ clReq = <<>>
    /\ clId = <<>>

\* One step of the lookup of a call.
Lookup(p) == Get(p) \/ DelCorrupt(p) \/ CssCheck(p) \/ JsCheck(p) \/ Purge(p)

\* One step of a call inside the lock.
Pipeline(p) ==
    \/ Run(p) \/ CssCreate(p) \/ CssCopy(p)
    \/ JsCreate(p) \/ JsCopy(p) \/ Put(p) \/ Deferred(p)

Next ==
    \/ \E p \in Procs : Call(p) \/ Lookup(p) \/ Lock(p) \/ Pipeline(p) \/ Return(p)
    \/ RemoveJs
    \/ CorruptRecord
    \/ Crash

Init ==
    /\ BuildInit
    /\ PipelineIdle
    /\ PeersIdle
    /\ SynthIdle
    /\ fpReq = NoReq
    /\ fpId = NoId
    /\ fpPrevReq = NoReq
    /\ fpPrevId = NoId

Spec == Init /\ [][Next]_vars

\* One request followed through build() step by step.
NextPipeline ==
    \E p \in PlProcs :
        Call(p) \/ Get(p) \/ Lock(p) \/ PipelineDetailed(p) \/ Return(p)

SpecPipeline == Init /\ [][NextPipeline]_vars

SpecPeers == Init /\ [][NextPeers]_vars

\* The requests that meet at the build lock.
GateProcs == {1, 2}

\* The calls of build() in a process that keeps running, and what happens
\* to the store and the files outside build().
NextGate ==
    \/ \E p \in GateProcs :
           Call(p) \/ Lookup(p) \/ Lock(p) \/ Pipeline(p) \/ Return(p)
    \/ RemoveJs
    \/ CorruptRecord

\* A call that can take a step takes one: goroutines are scheduled, and a
\* mutex that stays free is acquired by the goroutine blocked on it.
SpecGate ==
    /\ Init
    /\ [][NextGate]_vars
    /\ \A p \in GateProcs : WF_vars(Lookup(p) \/ Lock(p) \/ Pipeline(p) \/ Return(p))

FpNext == FpBuild \/ FpReorder

InitFingerprint ==
    /\ BuildInit
    /\ PipelineIdle
    /\ PeersIdle
    /\ SynthIdle
    /\ FpInit

SpecFingerprint == InitFingerprint /\ [][FpNext]_vars

\* One invocation of api.Build: resolver, output and prelude.
SpecResolve == Init /\ [][RsBuild \/ RsResolve \/ RsOutput \/ RsPostProcess]_vars

\* One request from importMeta to the entry stub.
SpecProbe == Init /\ [][PbCall \/ PbMeta \/ PbProbe \/ PbStub]_vars

\* Two single-package requests and their build identifiers.
SpecCollide == Init /\ [][ClCall \/ ClBuild]_vars

----------------------------------------------------------------------------
(* Properties of the build identifier *)

FpBothBuilt == fpId /= NoId /\ fpPrevId /= NoId

\* C1: a request of two or more packages gets the same BuildID whatever the
\* order of its packages list and of its externals list.
BundleIDOrderIndependent ==
    (FpBothBuilt /\ Len(fpReq.packages) >= 2) => fpId = fpPrevId

\* A bundle request built twice, both lists of the second in another order
\* than in the first and neither list of the second in sorted order.
BundleIDOrderIndependentWitness ==
    /\ FpBothBuilt
    /\ Len(fpReq.packages) >= 2
    /\ Len(fpReq.external) >= 2
    /\ fpReq.packages /= fpPrevReq.packages
    /\ fpReq.external /= fpPrevReq.external
    /\ fpReq.packages /= SortSlice(fpReq.packages)
    /\ fpReq.external /= SortSlice(fpReq.external)

\* C2: a request of one package and two or more externals gets the same
\* BuildID whatever the order of its externals list.
SingleIDExternalOrderIndependent ==
    (FpBothBuilt /\ Len(fpReq.packages) = 1 /\ Len(fpReq.external) >= 2)
        => fpId = fpPrevId

\* The text after the last '/' of s, all of s when it holds none.
AfterLastSlash(s) ==
    LET k == CHOOSE k \in 0..Len(s) :
                 /\ \A i \in (k + 1)..Len(s) : s[i] /= "/"
                 /\ (k = 0 \/ s[k] = "/")
    IN SubSeq(s, k + 1, Len(s))

RECURSIVE SlashesToUnderscores(_)
SlashesToUnderscores(s) ==
    IF s = <<>> THEN <<>>
    ELSE <<IF Head(s) = "/" THEN "_" ELSE Head(s)>> \o SlashesToUnderscores(Tail(s))

ExpectedTargetSegment(o) ==
    IF o.external = <<>> THEN o.target
    ELSE <<"external=">> \o SlashesToUnderscores(SliceString(o.external))
             \o <<"/">> \o o.target

ExpectedFilename(o) ==
    LET pkg == o.packages[1]
    IN (IF pkg.submodule = <<>> THEN AfterLastSlash(pkg.name) ELSE pkg.submodule)
           \o (IF o.isDev THEN <<".development">> ELSE <<>>)

\* C3: the BuildID of a single-package request is the unhashed text
\* v<BV>/<name>@<version>/<targetSegment>/<filename>.
SingleIDFormat ==
    (fpId /= NoId /\ Len(fpReq.packages) = 1)
        => fpId = <<"v", "1", "/">> \o fpReq.packages[1].name \o <<"@">>
                      \o fpReq.packages[1].version \o <<"/">>
                      \o ExpectedTargetSegment(fpReq) \o <<"/">>
                      \o ExpectedFilename(fpReq)

\* A built single-package request with a submodule, the dev flag and an
\* external whose name holds a '/'.
SingleIDFormatWitness ==
    /\ fpId /= NoId
    /\ Len(fpReq.packages) = 1
    /\ fpReq.packages[1].submodule /= <<>>
    /\ fpReq.isDev
    /\ \E i \in 1..Len(fpReq.external) :
           \E j \in 1..Len(fpReq.external[i].name) : fpReq.external[i].name[j] = "/"

----------------------------------------------------------------------------
(* Properties of the cache, the lock and the commit *)

\* The call went through buildLock: it is inside, or it returned from inside.
Gated(p) ==
    \/ pc[p] \in GateSteps
    \/ pc[p] = "done" /\ bid[p] /= NoId /\ outcome[p] \in {"built", "error"}

\* What a lookup of `id` that runs alone from here comes to (lines 97-123).
LookupOutcome(id) ==
    IF db[id] = NoRec THEN "miss"
    ELSE IF FileExists(jsFile[id]) THEN "hit"
    ELSE "miss"

\* C4: a call that finds the stored importMeta undecodable never returns a
\* cache hit; it returns from inside the lock, after the pipeline.
CorruptMetaNeverHit ==
    \A p \in Procs :
        (pc[p] = "done" /\ verdict[p] = "corrupt")
            => (outcome[p] /= "hit" /\ Gated(p))

MissingSidecarState ==
    \A p \in Procs :
        verdict[p] = "nojs"
            => /\ pc[p] \in {"purge", "lock", "done"} \cup GateSteps
               /\ outcome[p] /= "hit"
               /\ (pc[p] = "done" => Gated(p))

MissingSidecarStep ==
    \A p \in Procs :
        (pc[p] = "purge" /\ pc'[p] /= "purge" /\ pc'[p] /= "over")
            => (pc'[p] = "lock" /\ db'[bid[p]] = NoRec)

CommitThenHit ==
    \A p \in Procs :
        expect[p] /= NoCommit
            => /\ pc[p] \in {"get", "cssCheck", "jsCheck", "done"}
               /\ pc[p] = "done"
                    => /\ outcome[p] = "hit"
                       /\ ret[p] = expect[p]
                       /\ ret[p].importMeta = MetaOf(bid[p])
                       /\ FileExists(jsFile[bid[p]])
                       /\ (ret[p].hasCSS => FileExists(cssFile[bid[p]]))
                       /\ ~Gated(p)

\* A hit on a commit that wrote a .css.
CommitThenHitWitness ==
    \E p \in Procs :
        /\ pc[p] = "done"
        /\ expect[p] /= NoCommit
        /\ outcome[p] = "hit"
        /\ ret[p].hasCSS

\* C7: in a build the record is written last, after the .css (when there
\* is one) and the .js are completely written; so at every step of the
\* commit of a BuildID that had no record, a lookup of it is a miss.
RecordWrittenLast ==
    \A p \in Procs :
        /\ (pc[p] \in CommitSteps => outcome[p] = "none")
        /\ (pc[p] = "put"
               => /\ jsFile[bid[p]] = "complete"
                  /\ (out[p].css => cssFile[bid[p]] = "complete"))
        /\ ((pc[p] \in CommitSteps /\ fresh[p]) => LookupOutcome(bid[p]) = "miss")

\* A first commit at the step where its .js sidecar is created and empty,
\* its .css written.
RecordWrittenLastWitness ==
    \E p \in Procs :
        /\ pc[p] = "jsCopy"
        /\ fresh[p]
        /\ out[p].css
        /\ jsFile[bid[p]] = "partial"
        /\ cssFile[bid[p]] = "complete"

\* C8: at most one call is between acquiring buildLock and returning.
OneBuildAtATime ==
    /\ Cardinality({p \in Procs : pc[p] \in GateSteps}) <= 1
    /\ \A p \in Procs : pc[p] \in GateSteps => buildLock = p

\* One call commits while two others wait for the lock, one of them for
\* another BuildID.
OneBuildAtATimeWitness ==
    \E p, q, r \in Procs :
        /\ pc[p] = "jsCopy"
        /\ pc[q] = "lock"
        /\ pc[r] = "lock"
        /\ q /= r
        /\ bid[q] /= bid[p]
        /\ bid[r] = bid[p]

\* C9: a call that acquires the lock when the record and the complete .js
\* of its BuildID are there (committed while it waited) does not run the
\* pipeline again and writes no sidecar and no record.
QueuedRequestCoalesces ==
    \A p \in Procs : gateSaw[p] => pc[p] \notin CommitSteps

\* C10: a call for a BuildID with an intact entry returns the hit without
\* the lock: its every step can be taken whoever holds buildLock.
HitWithoutLock ==
    \A p \in Procs :
        expect[p] /= NoCommit
            => /\ pc[p] /= "lock"
               /\ ~Gated(p)
               /\ (pc[p] \in {"get", "cssCheck", "jsCheck"} => ENABLED Lookup(p))
               /\ (pc[p] = "done" => outcome[p] = "hit")

\* A hit returned while another call is committing inside the lock.
HitWithoutLockWitness ==
    \E p, q \in Procs :
        /\ pc[p] = "done"
        /\ expect[p] /= NoCommit
        /\ outcome[p] = "hit"
        /\ buildLock = q
        /\ pc[q] \in CommitSteps

----------------------------------------------------------------------------
(* Properties of the pipeline *)

\* C11: a call that returns an error has written no record; the record is
\* written only by a call whose every earlier step succeeded.
ErrorWritesNoRecord ==
    \A p \in Procs :
        /\ outcome[p] = "error" => ~wrote[p]
        /\ wrote[p] => outcome[p] = "built"

\* A call that failed while it wrote the .js sidecar, the .css written.
ErrorWritesNoRecordWitness ==
    \E p \in Procs :
        /\ pc[p] = "done"
        /\ outcome[p] = "error"
        /\ bid[p] /= NoId
        /\ jsFile[bid[p]] = "partial"
        /\ cssFile[bid[p]] = "complete"

\* The last result reports `Could not resolve` errors only, and every name
\* it reports was added to the externals by an earlier retry of this build.
RepeatedFailure(p) ==
    /\ resultErrors[p] /= <<>>
    /\ \A i \in 1..Len(resultErrors[p]) : IsCouldNotResolve(resultErrors[p][i])
    /\ ReportedNames(resultErrors[p]) \subseteq indirectRequires[p]

\* C12: after a repeated identical failure the build commits nothing: it
\* writes no sidecar and no record, and it returns an error.
RepeatedFailureIsFatal ==
    \A p \in Procs :
        RepeatedFailure(p)
            => /\ pc[p] \notin CommitSteps
               /\ ~wrote[p]
               /\ (pc[p] = "done" => outcome[p] = "error")

\* The last result holds an error that is no `Could not resolve`.
OtherError(p) ==
    \E i \in 1..Len(resultErrors[p]) : ~IsCouldNotResolve(resultErrors[p][i])

\* C13: when a result holds an error that is no `Could not resolve`, the
\* build returns an error: api.Build is not invoked again and nothing is
\* committed, wherever in the result the error stands.
OtherErrorIsFatal ==
    \A p \in Procs :
        OtherError(p)
            => /\ pc[p] \in {"errors", "defer", "done"}
               /\ (pc[p] /= "errors" => outcome[p] = "error")
               /\ ~wrote[p]

\* A build ended by a result whose first error names a module not seen
\* before and whose second is no `Could not resolve`.
OtherErrorIsFatalWitness ==
    \E p \in Procs :
        /\ pc[p] = "done"
        /\ outcome[p] = "error"
        /\ esbuildCalls[p] = 1
        /\ Len(resultErrors[p]) = 2
        /\ IsCouldNotResolve(resultErrors[p][1])
        /\ MissingModule(resultErrors[p][1]) /= <<>>
        /\ ~IsCouldNotResolve(resultErrors[p][2])

\* C14: in one build api.Build is invoked at most once more than there are
\* names recorded by the retries, each of them a name reported as missing.
RetryLoopBounded ==
    \A p \in Procs :
        /\ esbuildCalls[p] <= 1 + Cardinality(indirectRequires[p])
        /\ indirectRequires[p] \subseteq reported[p]
        /\ esbuildCalls[p] <= 1 + Cardinality(reported[p])

\* A build that succeeded at the third invocation, after two retries.
RetryLoopBoundedWitness ==
    \E p \in Procs :
        /\ pc[p] = "done"
        /\ outcome[p] = "built"
        /\ esbuildCalls[p] = 3
        /\ resultErrors[p] = <<>>

\* C15: when build returns, the working directory it created is gone.
WorkDirRemovedOnReturn ==
    \A p \in Procs : pc[p] = "done" => buildDir[p] /= "exists"

\* A build whose .js sidecar could not be written has returned its error,
\* the working directory removed.
WorkDirRemovedOnReturnWitness ==
    \E p \in Procs :
        /\ pc[p] = "done"
        /\ outcome[p] = "error"
        /\ buildDir[p] = "removed"
        /\ jsFile[bid[p]] = "partial"

----------------------------------------------------------------------------
(* Properties of the peers *)

\* The names the answers of the registry declare as peers.
DeclaredPeers == UNION { DOMAIN prInfo[i].PeerDependencies : i \in 1..Len(prInfo) }

\* C16: a declared peer is a true peer exactly when no requested package
\* has its name and no requested package has it among its dependencies; a
\* true peer is on the install list and among the externals.
PeerClassification ==
    prPc = "done" =>
        \A n \in DeclaredPeers :
            /\ n \in peerPackages
                 <=> /\ \A i \in 1..Len(prReq.packages) : prReq.packages[i].name /= n
                     /\ \A i \in 1..Len(prInfo) : n \notin prInfo[i].Dependencies
            /\ n \in peerPackages
                 => /\ n \in externals
                    /\ \E e \in installList : SubSeq(e, 1, Len(n) + 1) = n \o <<"@">>

\* C17: when react-dom is requested and declares react as a peer, react is
\* a true peer and no external names react, react is on the install list
\* with the resolved version of react-dom and with no other.
ReactPinnedToReactDom ==
    prPc = "done" =>
        \A i \in 1..Len(prInfo) :
            ( /\ prInfo[i].Name = <<"react-dom">>
              /\ <<"react">> \in DOMAIN prInfo[i].PeerDependencies
              /\ <<"react">> \in peerPackages
              /\ \A j \in 1..Len(prReq.external) : prReq.external[j].name /= <<"react">> )
                => \A e \in installList :
                       SubSeq(e, 1, 2) = <<"react", "@">>
                           => e = InstallEntry(<<"react">>, prInfo[i].Version)

----------------------------------------------------------------------------
(* Properties of the call *)

\* What a call with no package must come to in its one step: the error,
\* with the store, the files and the lock as they were and nothing read.
FailedAtOnce(p) ==
    /\ pc'[p] = "done"
    /\ outcome'[p] = "error"
    /\ bid'[p] = NoId
    /\ got'[p] = NoRec
    /\ db' = db /\ jsFile' = jsFile /\ cssFile' = cssFile
    /\ buildLock' = buildLock
    /\ wrote' = wrote

\* C18: build with an empty packages list returns its error at once,
\* whoever holds the lock: it reads no record, does not touch the lock and
\* writes no file and no record.
EmptyPackagesFailFirst ==
    \A p \in Procs :
        /\ pc[p] = "idle"
              => \A o \in BuildReqs :
                     Len(o.packages) = 0
                         => /\ ENABLED CallWith(p, o)
                            /\ ~ENABLED (CallWith(p, o) /\ ~FailedAtOnce(p))
        /\ (pc[p] = "done" /\ bid[p] = NoId)
              => (outcome[p] = "error" /\ got[p] = NoRec /\ ~wrote[p])

\* A call with no package has returned its error while another call holds
\* the lock.
EmptyPackagesFailFirstWitness ==
    \E p, q \in Procs :
        /\ p /= q
        /\ pc[p] = "done"
        /\ bid[p] = NoId
        /\ outcome[p] = "error"
        /\ buildLock = q

----------------------------------------------------------------------------
(* Properties of the sidecar paths *)

\* C19 as the layout has it: the sidecars of every BuildID lie at
\* <storage>/builds/v<BV>/<BuildID>.js and .css, where the lookup tests
\* what the commit wrote.
SidecarsUnderVersionDir ==
    fpId /= NoId
        => /\ CommitJsPath(fpId)
                = storageDir \o <<"/", "builds", "/", "v", "1", "/">> \o fpId \o <<".js">>
           /\ CommitCssPath(fpId)
                = storageDir \o <<"/", "builds", "/", "v", "1", "/">> \o fpId \o <<".css">>
           /\ LookupJsPath(fpId) = CommitJsPath(fpId)
           /\ LookupCssPath(fpId) = CommitCssPath(fpId)

\* C19, amended: the sidecars of every BuildID lie at
\* <storage>/builds/<BuildID>.js and .css, where the lookup tests what
\* the commit wrote; the v<BV>/ of a single-package BuildID is the only
\* version directory in the path, and a bundle has none.
SidecarsUnderBuilds ==
    fpId /= NoId
        => /\ CommitJsPath(fpId) = storageDir \o <<"/", "builds", "/">> \o fpId \o <<".js">>
           /\ CommitCssPath(fpId) = storageDir \o <<"/", "builds", "/">> \o fpId \o <<".css">>
           /\ LookupJsPath(fpId) = CommitJsPath(fpId)
           /\ LookupCssPath(fpId) = CommitCssPath(fpId)
           /\ (Len(fpReq.packages) = 1
                  => SubSeq(CommitJsPath(fpId), 1, Len(storageDir) + 6)
                         = storageDir \o <<"/", "builds", "/", "v", "1", "/">>)
           /\ (Len(fpReq.packages) >= 2
                  => SubSeq(CommitJsPath(fpId), 1, Len(storageDir) + 4)
                         = storageDir \o <<"/", "builds", "/", "bundle-">>)

\* The BuildID of a bundle and, before the reordering, of the same bundle.
SidecarsUnderBuildsWitness ==
    /\ FpBothBuilt
    /\ Len(fpReq.packages) >= 2
    /\ fpId[1] = "bundle-"

----------------------------------------------------------------------------
(* Properties of lookups that run beside a build *)

\* C20: no call returns a cache hit while the .js sidecar of its BuildID
\* is created and not yet completely written: where the lookup tests the
\* .js and the file is not complete, its step is not a hit.
NoHitOnPartialJs ==
    \A p \in Procs :
        (pc[p] = "jsCheck" /\ jsFile[bid[p]] /= "complete")
            => ~ENABLED (JsCheck(p) /\ outcome'[p] = "hit")

----------------------------------------------------------------------------
(* The externals of the retries                                             *)

\* The names a failed invocation reports for the first time: not empty, not
\* in indirectRequires, and not reported earlier in the same result.
FirstTimeNames(errs, ind) ==
    LET first(i) == /\ IsCouldNotResolve(errs[i])
                    /\ MissingModule(errs[i]) /= <<>>
                    /\ MissingModule(errs[i]) \notin ind
                    /\ \A j \in 1..(i - 1) : MissingModule(errs[j]) /= MissingModule(errs[i])
    IN SelectSeq([i \in 1..Len(errs) |-> IF first(i) THEN MissingModule(errs[i]) ELSE <<>>],
                 LAMBDA n : n /= <<>>)

\* The request p goes from a result with errors to another api.Build.
Retries(p) == pc[p] = "errors" /\ pc'[p] = "esbuild"

\* C21: every retry of api.Build runs with the externals of the failed
\* invocation followed by exactly the names that invocation reported for the
\* first time; between the first api.Build and the return of build no name
\* leaves the externals, and no appended name was in indirectRequires.
RetryExtendsExternals ==
    [][\A p \in PlProcs :
          /\ Retries(p) =>
                /\ esbuildExternals'[p] =
                      esbuildExternals[p] \o FirstTimeNames(resultErrors[p], indirectRequires[p])
                /\ Len(esbuildExternals'[p]) > Len(esbuildExternals[p])
                /\ \A i \in (Len(esbuildExternals[p]) + 1)..Len(esbuildExternals'[p]) :
                      esbuildExternals'[p][i] \notin indirectRequires[p]
          /\ (pc[p] \in {"esbuild", "errors"} /\ ~Retries(p)) =>
                esbuildExternals'[p] = esbuildExternals[p]]_vars

\* The third api.Build of a request has run with two appended names, and its
\* result reports a name that indirectRequires holds already.
RetryExtendsExternalsWitness ==
    \E p \in PlProcs :
        /\ pc[p] = "errors"
        /\ esbuildCalls[p] = 3
        /\ Cardinality(indirectRequires[p]) = 2
        /\ Len(esbuildExternals[p]) >= 3
        /\ ReportedNames(resultErrors[p]) \cap indirectRequires[p] /= {}

----------------------------------------------------------------------------
(* The resolver                                                             *)

\* The last call of the resolver was for an import other than the requested
\* package itself.
ResolvedOther ==
    /\ rsArgs /= NoArgs
    /\ ~(rsOpt.single /\ rsArgs.path = ImportPath(rsOpt.packages[1]))

\* C22: for an import other than the requested package, an ES module
\* importer gets another path than the imported name and the map stays as it
\* was, a CommonJS importer gets the imported name back and the map gains or
\* replaces the entry of exactly that name; both results are external.
ResolverKeepsCommonJSPath ==
    ResolvedOther =>
        /\ rsResult.External
        /\ ~rsResult.err
        /\ rsArgs.esm =>
              /\ rsResult.Path /= rsArgs.path
              /\ peerModulesForCommonjs = rsBefore
        /\ ~rsArgs.esm =>
              /\ rsResult.Path = rsArgs.path
              /\ DOMAIN peerModulesForCommonjs = DOMAIN rsBefore \cup {rsArgs.path}
              /\ \A n \in DOMAIN rsBefore \ {rsArgs.path} :
                    peerModulesForCommonjs[n] = rsBefore[n]

\* The module an import path names: a scoped name has two segments.
ModuleOfImportPath(path, version) ==
    LET slashes == {i \in 1..Len(path) : path[i] = "/"}
        after == IF Len(path) > 0 /\ path[1] = "@"
                 THEN {i \in slashes : \E j \in slashes : j < i}
                 ELSE slashes
        cut == IF after = {} THEN Len(path) + 1
               ELSE CHOOSE i \in after : \A j \in after : i <= j
    IN Module(SubSeq(path, 1, cut - 1), version, SubSeq(path, cut + 1, Len(path)))

\* The version the resolver knows of the import of its last call.
KnownVersion ==
    LET ext == SliceGet(rsOpt.external, rsArgs.path)
    IN IF ext.found THEN ext.m.version ELSE rsOpt.peerPackages[rsArgs.path]

\* The last call of the resolver was for an external of the request or a peer.
ResolvedKnown ==
    /\ ResolvedOther
    /\ \/ SliceGet(rsOpt.external, rsArgs.path).found
       \/ rsArgs.path \in DOMAIN rsOpt.peerPackages

\* C23: the path a known package is rewritten to is "/" + BuildID + ".js"
\* of the single-package request for that import path and version, without
\* externals, with the target and the dev flag of the build.
KnownPathIsArtifactPath ==
    ResolvedKnown =>
        (IF rsArgs.esm THEN rsResult.Path ELSE peerModulesForCommonjs[rsResult.Path])
            = <<"/">> \o BuildID([packages |-> <<ModuleOfImportPath(rsArgs.path, KnownVersion)>>,
                                  external |-> <<>>,
                                  target |-> rsOpt.target,
                                  isDev |-> rsOpt.isDev]) \o DotJs

\* The identifiers the define table can put into the output.
Sentinels == { Sentinel(n) : n \in {"process", "Buffer", "setImmediate", "rResolve", "global"} }

\* C24: every identifier of the define table that the written output holds
\* is bound by a statement of the prelude.
SentinelsBound ==
    rsPc = "done" =>
        \A id \in Sentinels :
            Contains(jsContentBuf.content, id) =>
                \E i \in 1..Len(jsContentBuf.prelude) : jsContentBuf.prelude[i].id = id

----------------------------------------------------------------------------
(* The entry stub and the probing                                          *)

\* The statements of the stub that read the default export of an import path.
ReadsDefault(statement) ==
    statement.form \in {"export { default } from", "export { default as } from",
                        "import default"}

\* C25 as stated: the stub reads `default` of a package only when the
\* probing enumerated `default`, and it lists no name the probing did not
\* enumerate.
StubNamesOnlyEnumerated ==
    pbPc = "done" =>
        \A i \in 1..Len(entryStub) :
            LET exports == probeMeta[entryStub[i].from].Exports
            IN /\ ReadsDefault(entryStub[i]) => HasDefaultExport(exports)
               /\ \A k \in 1..Len(entryStub[i].names) :
                     \E j \in 1..Len(exports) : exports[j] = entryStub[i].names[k]

\* C25, amended: the same, but for the stub of a single-package request
\* whose entry is CommonJS, which always reads the default.
StubNamesOnlyEnumeratedButSingleCommonJS ==
    pbPc = "done" =>
        \A i \in 1..Len(entryStub) :
            LET meta == probeMeta[entryStub[i].from]
            IN /\ ReadsDefault(entryStub[i]) =>
                     \/ HasDefaultExport(meta.Exports)
                     \/ Len(pbReq.packages) = 1 /\ meta.Module = <<>>
               /\ \A k \in 1..Len(entryStub[i].names) :
                     /\ entryStub[i].names[k] \notin {"default", "import"}
                     /\ \E j \in 1..Len(meta.Exports) :
                           meta.Exports[j] = entryStub[i].names[k]

\* The stub of a single-package request is written for a CommonJS entry
\* whose enumeration holds `import` and another name, but no `default`.
StubNamesOnlyEnumeratedWitness ==
    /\ pbPc = "done"
    /\ Len(pbReq.packages) = 1
    /\ LET meta == probeMeta[ImportPath(pbReq.packages[1])]
       IN /\ meta.Module = <<>>
          /\ meta.Exports = <<"c", "import">>
    /\ Len(entryStub) = 4
    /\ entryStub[3].names = <<"c">>

\* C26: once the entries are probed, up to the commit, a package's module
\* is set only when the probing of this build classified its entry as an ES
\* module, and then its exports are those of that probe; otherwise module
\* is empty and the exports are the CommonJS enumeration.
ModuleOnlyIfProbedESM ==
    pbPc \in {"stub", "done"} =>
        \A i \in 1..Len(pbReq.packages) :
            LET importPath == ImportPath(pbReq.packages[i])
                meta == probeMeta[importPath]
            IN IF meta.Module /= <<>>
               THEN /\ pbEnv.esm
                    /\ probed[importPath] = "esm"
                    /\ meta.Exports = pbEnv.esmExports
               ELSE /\ probed[importPath] = "cjs"
                    /\ meta.Exports = pbEnv.cjsExports

\* A package declares a module, its entry probes as CommonJS, and the build
\* has reached the stub.
ModuleOnlyIfProbedESMWitness ==
    /\ pbPc = "done"
    /\ pbEnv.info.Module /= <<>>
    /\ ~pbEnv.esm
    /\ \E i \in 1..Len(pbReq.packages) :
          /\ pbReq.packages[i].submodule = <<>>
          /\ probeMeta[ImportPath(pbReq.packages[i])].Module = <<>>

\* C27: a package requested with a submodule whose directory has no
\* package.json is committed with main equal to the submodule and an empty
\* module.
SubmoduleMetaHasNoModule ==
    (pbPc = "done" /\ ~pbEnv.nested.exists) =>
        \A i \in 1..Len(pbReq.packages) :
            pbReq.packages[i].submodule /= <<>> =>
                LET meta == probeMeta[ImportPath(pbReq.packages[i])]
                IN meta.Main = pbReq.packages[i].submodule /\ meta.Module = <<>>

----------------------------------------------------------------------------
(* Build identifiers of different requests                                 *)

\* C28: two single-package requests that differ get different build
\* identifiers.
DifferentRequestsDifferentIDs ==
    (Len(clId) = 2 /\ clReq[1] /= clReq[2]) => clId[1] /= clId[2]

----------------------------------------------------------------------------
(* The release of the build lock                                           *)

\* C29: a call that has returned from build does not hold buildLock, and a
\* call waiting for buildLock comes to hold it.
GateReleasedOnEveryReturn ==
    /\ [](\A p \in GateProcs : pc[p] \in {"idle", "done", "over"} => buildLock /= p)
    /\ \A p \in GateProcs : (pc[p] = "lock") ~> (buildLock = p)

\* A call waits for buildLock while the call that holds it has failed
\* after it wrote the .css sidecar and is about to return.
GateReleasedOnEveryReturnWitness ==
    \E p, q \in GateProcs :
        /\ pc[p] = "lock"
        /\ pc[q] = "defer"
        /\ outcome[q] = "error"
        /\ cssFile[bid[q]] = "complete"
        /\ jsFile[bid[q]] = "partial"
        /\ buildLock = q

====
